---------------------------- MODULE Spec2Model ----------------------------
(***************************************************************************)
(* A model of the enso-bot chat relay: the WebSocket session registry of   *)
(* chat.ts (class Chat), the relay engine of the bot entry point (class    *)
(* Bot) and the SQLite store of database.ts (class Database).              *)
(*                                                                         *)
(* JavaScript runs one handler segment at a time: the code between two     *)
(* awaits that wait for I/O is one atomic step.  An await of an async      *)
(* function that finishes without waiting for I/O yields only to the       *)
(* microtask queue, where no socket or platform event can be delivered, so *)
(* it does not end a step.                                                 *)
(***************************************************************************)
EXTENDS Naturals, Sequences, FiniteSets, TLC

(* ------------------------------ bounds ---------------------------------- *)
\* Connections the WebSocket server accepts in a run.
MaxConns == 2
\* Socket frames received in a run, over all connections.
MaxTasks == 2
\* Platform (Discord) events received in a run.
MaxEvents == 1

(* --------------------------- basic values ------------------------------- *)
\* JavaScript's null / undefined, as stored in a column or returned by Map.get.
Null == "null"

\* Client addresses.
Addrs == {"ip1", "ip2"}

\* The connection handles (ws.WebSocket objects), in the order they connect.
ConnName == << "ws1", "ws2", "ws3", "ws4" >>

Conns == {ConnName[i] : i \in 1..MaxConns}

\* null in an id column or id field: no platform id (snowflake) is 0.
NullId == 0

\* The upgrade requests a connection can come with: the x-forwarded-for
\* header (its comma-separated entries; empty when the header is absent) and
\* the socket's remote address.
Requests ==
    { [forwardedFor |-> << >>, remoteAddress |-> "ip1"],
      [forwardedFor |-> << "ip2", "proxy" >>, remoteAddress |-> "ip1"] }

(* ----------------------------- partial maps ----------------------------- *)
\* Map.get: undefined for an absent key.
Get(m, k) == IF k \in DOMAIN m THEN m[k] ELSE Null

\* Map.set
Put(m, k, v) == [x \in DOMAIN m \cup {k} |-> IF x = k THEN v ELSE m[x]]

\* Map.delete
Del(m, k) == [x \in DOMAIN m \ {k} |-> m[x]]

EmptyMap == [x \in {} |-> Null]

VARIABLES
    ipToUser,          \* Chat.ipToUser: client address -> UserId
    userToIp,          \* Chat.userToIp: UserId -> client address
    userToWebsocket,   \* Chat.userToWebsocket: UserId -> connection
    sockets,           \* per connection: readyState and upgrade request
    tasks,             \* the onWebSocketMessage calls that are waiting for I/O
    users,             \* Store: users table
    threads,           \* Store: threads table
    messages,          \* Store: messages table
    reactions,         \* Store: reactions table (set of <<messageId, symbol>>)
    nextId,            \* the platform's next snowflake id
    channels,          \* the ids of the threads that exist on the platform
    botThreads,        \* Bot.threads: what Bot.getThread has cached per thread id
    gateway,           \* create events the platform has not delivered yet
    nFrames,           \* socket frames received so far
    nEvents,           \* platform events received so far
    running,           \* the node process is alive
    handled,           \* the onWebSocketMessage call that ran in the last step
    written,           \* frames handed to websocket.send in the last step
    sends,             \* the calls of Chat.send made in the last step
    platformOps,       \* platform adapter calls made in the last step
    connUser,          \* per connection: the user it last authenticated as
    effLast,           \* per connection: the frame whose effect came last
    effMax             \* per connection: the latest frame that has had an effect

vars == << ipToUser, userToIp, userToWebsocket, sockets, tasks, users, threads,
           messages, reactions, nextId, channels, botThreads, gateway,
           nFrames, nEvents, running, handled,
           written, sends, platformOps, connUser, effLast, effMax >>

(* ------------------------------- Store ---------------------------------- *)
\* What a SELECT ... LIMIT 1 returns when no row matches (undefined, or null
\* after ?? null).
Undefined == [undefined |-> TRUE]

\* Platform ids (snowflakes) are compared as the store compares them.
IdLess(a, b) == a < b

\* The state a handler segment works on: the registry, the store and what the
\* segment has written so far.  threw: an exception is propagating.
World ==
    [ reg |-> [ipToUser |-> ipToUser, userToIp |-> userToIp,
               userToWebsocket |-> userToWebsocket],
      users |-> users, threads |-> threads, messages |-> messages,
      reactions |-> reactions,
      written |-> << >>, sends |-> << >>, ops |-> << >>, threw |-> FALSE ]

Throw(w) == [w EXCEPT !.threw = TRUE]

\* A bug hasUser could have: the SELECT compares another column than id, so
\* that it finds no row.
hasUserNever(w, userId) == FALSE

hasUser(w, userId) == userId \in DOMAIN w.users

getUser(w, userId) ==
    IF userId \in DOMAIN w.users THEN w.users[userId] ELSE Undefined

\* A bug the lookup could have: the SELECT lacks its WHERE clause, so that
\* any account is taken for the first registered staff member.
getUserByDiscordIdAny(w, discordUserId) ==
    LET found == {u \in DOMAIN w.users : w.users[u].discordId # Null}
    IN  IF found = {} THEN Undefined ELSE w.users[CHOOSE u \in found : TRUE]

\* Another bug the lookup could have: when no row matches, the first row of
\* the table is returned instead of undefined.
getUserByDiscordIdOrFirst(w, discordUserId) ==
    LET found == {u \in DOMAIN w.users : w.users[u].discordId = discordUserId}
    IN  IF found = {} THEN w.users[CHOOSE u \in DOMAIN w.users : TRUE]
        ELSE w.users[CHOOSE u \in found : TRUE]

getUserByDiscordId(w, discordUserId) ==
    LET found == {u \in DOMAIN w.users : w.users[u].discordId = discordUserId}
    IN  IF found = {} THEN Undefined ELSE w.users[CHOOSE u \in found : TRUE]

\* INSERT INTO users: the primary key id and the UNIQUE discordId are enforced.
\* The statement has no email column: user.email is not stored.
createUser(w, user) ==
    IF \/ user.id \in DOMAIN w.users
       \/ /\ user.discordId # Null
          /\ \E u \in DOMAIN w.users : w.users[u].discordId = user.discordId
    THEN Throw(w)
    ELSE [w EXCEPT !.users =
            Put(@, user.id,
                [id |-> user.id, discordId |-> user.discordId, name |-> user.name,
                 avatarUrl |-> user.avatarUrl,
                 currentThreadId |-> user.currentThreadId])]

\* The callback every caller passes to an update: row => ({ ...row, ...changes }).
Spread(row, changes) ==
    [f \in DOMAIN row |-> IF f \in DOMAIN changes THEN changes[f] ELSE row[f]]

\* fn(getUser(userId)) and UPDATE users ... WHERE id = userId, for the
\* callback that spreads the row and sets the fields of changes.  With no
\* row, fn spreads undefined, the statement is run with undefined parameters
\* and better-sqlite3 throws a TypeError.
updateUser(w, userId, changes) ==
    IF userId \notin DOMAIN w.users THEN Throw(w)
    ELSE [w EXCEPT !.users[userId] = Spread(@, changes)]

hasThread(w, threadId) == threadId \in DOMAIN w.threads

getThread(w, threadId) ==
    IF threadId \in DOMAIN w.threads THEN w.threads[threadId] ELSE Undefined

createThread(w, thread) ==
    IF thread.discordThreadId \in DOMAIN w.threads THEN Throw(w)
    ELSE [w EXCEPT !.threads = Put(@, thread.discordThreadId, thread)]

\* A bug updateThread could have: the UPDATE binds title and userId in each
\* other's place.
updateThreadSwapped(w, threadId, changes) ==
    IF threadId \notin DOMAIN w.threads THEN Throw(w)
    ELSE LET row == Spread(w.threads[threadId], changes)
         IN  [w EXCEPT !.threads[threadId] =
                [row EXCEPT !.userId = row.title, !.title = row.userId]]

updateThread(w, threadId, changes) ==
    IF threadId \notin DOMAIN w.threads THEN Throw(w)
    ELSE [w EXCEPT !.threads[threadId] = Spread(@, changes)]

\* A bug createMessage could have: the INSERT is never run.
createMessageDropped(w, message) == w

createMessage(w, message) ==
    IF message.discordMessageId \in DOMAIN w.messages THEN Throw(w)
    ELSE [w EXCEPT !.messages = Put(@, message.discordMessageId, message)]

\* A bug updateMessage could have: the UPDATE binds a missing editedAt as 0
\* instead of NULL, which the NOT NULL column accepts.
updateMessageUnchecked(w, messageId, changes) ==
    IF messageId \notin DOMAIN w.messages THEN Throw(w)
    ELSE [w EXCEPT !.messages[messageId] = Spread(@, changes)]

\* fn(getMessage(id)) and the UPDATE: for a missing row the spread of
\* undefined leaves the other columns undefined, which cannot be bound; the
\* column editedAt is NOT NULL.
updateMessage(w, messageId, changes) ==
    IF messageId \notin DOMAIN w.messages THEN Throw(w)
    ELSE IF "editedAt" \in DOMAIN changes /\ changes.editedAt = NullId
    THEN Throw(w)
    ELSE [w EXCEPT !.messages[messageId] = Spread(@, changes)]

\* The ids of a set, greatest first (ORDER BY discordMessageId DESC).
RECURSIVE Descending(_)
Descending(S) ==
    IF S = {} THEN << >>
    ELSE LET top == CHOOSE x \in S : \A y \in S : y = x \/ IdLess(y, x)
         IN  << top >> \o Descending(S \ {top})

Reverse(s) == [i \in 1..Len(s) |-> s[Len(s) + 1 - i]]

Take(s, n) == SubSeq(s, 1, IF Len(s) < n THEN Len(s) ELSE n)

\* SELECT * FROM threads WHERE userId = ?  (rowid order: order of insertion,
\* which for platform-assigned thread ids is ascending id order).
getUserThreads(w, userId) ==
    LET ids == {t \in DOMAIN w.threads : w.threads[t].userId = userId}
    IN  [i \in 1..Cardinality(ids) |-> w.threads[Reverse(Descending(ids))[i]]]

\* A bug the query could have: the WHERE clause does not name the thread.
getThreadLastMessagesOfAll(w, threadId, limit, getBefore) ==
    LET ids == {m \in DOMAIN w.messages :
                    getBefore # NullId => IdLess(m, getBefore)}
        page == Reverse(Take(Descending(ids), limit))
    IN  [i \in 1..Len(page) |-> w.messages[page[i]]]

\* A bug the query could have: `<=` instead of `<` in the WHERE clause.
getThreadLastMessagesInclusive(w, threadId, limit, getBefore) ==
    LET ids == {m \in DOMAIN w.messages :
                    /\ w.messages[m].discordThreadId = threadId
                    /\ (getBefore # NullId => ~IdLess(getBefore, m))}
        page == Reverse(Take(Descending(ids), limit))
    IN  [i \in 1..Len(page) |-> w.messages[page[i]]]

\* SELECT * FROM (SELECT ... WHERE discordThreadId = ? [AND discordMessageId < ?]
\*   ORDER BY discordMessageId DESC LIMIT ?) ORDER BY discordMessageId ASC
getThreadLastMessages(w, threadId, limit, getBefore) ==
    LET ids == {m \in DOMAIN w.messages :
                    /\ w.messages[m].discordThreadId = threadId
                    /\ (getBefore # NullId => IdLess(m, getBefore))}
        page == Reverse(Take(Descending(ids), limit))
    IN  [i \in 1..Len(page) |-> w.messages[page[i]]]

\* reactions joined with messages of the thread with ids in [start, end].
getReactions(w, threadId, startMessageId, endMessageId) ==
    {r \in w.reactions :
        /\ r[1] \in DOMAIN w.messages
        /\ w.messages[r[1]].discordThreadId = threadId
        /\ ~IdLess(r[1], startMessageId)
        /\ ~IdLess(endMessageId, r[1])}

\* INSERT INTO reactions: (discordMessageId, reaction) is the primary key.
createReaction(w, reaction) ==
    IF << reaction.discordMessageId, reaction.reaction >> \in w.reactions
    THEN Throw(w)
    ELSE [w EXCEPT !.reactions =
            @ \cup {<< reaction.discordMessageId, reaction.reaction >>}]

\* A bug deleteReaction could have: it fails when it deleted no row.
deleteReactionStrict(w, reaction) ==
    IF << reaction.discordMessageId, reaction.reaction >> \notin w.reactions
    THEN Throw(w)
    ELSE [w EXCEPT !.reactions =
            @ \ {<< reaction.discordMessageId, reaction.reaction >>}]

\* DELETE FROM reactions WHERE discordMessageId = ? AND reaction = ?
deleteReaction(w, reaction) ==
    [w EXCEPT !.reactions =
        @ \ {<< reaction.discordMessageId, reaction.reaction >>}]

(* -------------------------- Session Registry ---------------------------- *)
\* Chat.getClientAddress
getClientAddress(request) ==
    IF request.forwardedFor # << >> THEN Head(request.forwardedFor)
    ELSE request.remoteAddress

\* The three Map.set calls of an authentication branch.
Register(w, clientAddress, userId, websocket) ==
    [w EXCEPT !.reg.ipToUser = Put(@, clientAddress, userId),
              !.reg.userToIp = Put(@, userId, clientAddress),
              !.reg.userToWebsocket = Put(@, userId, websocket)]

\* Chat.removeClient
removeClientReg(reg, request) ==
    LET clientAddress == getClientAddress(request)
        userId == Get(reg.ipToUser, clientAddress)
        r1 == [reg EXCEPT !.ipToUser = Del(@, clientAddress)]
    IN  IF clientAddress = Null THEN reg
        ELSE IF userId # Null
             THEN [r1 EXCEPT !.userToIp = Del(@, userId),
                             !.userToWebsocket = Del(@, userId)]
             ELSE r1

\* The store part of a world.
StoreOf(w) == << w.users, w.threads, w.messages, w.reactions >>

\* A bug Chat.send could have: the stale branch forgets the user and the
\* handle but keeps the address's ipToUser entry.
forgetUserKeepsAddress(reg, userId) ==
    [reg EXCEPT !.userToWebsocket = Del(@, userId),
                !.userToIp = Del(@, userId)]

\* Chat.send, the branch of a handle that is not open: the user's handle and
\* address are deleted, and the ipToUser entry of that address.
forgetUser(reg, userId) ==
    LET ip == Get(reg.userToIp, userId)
        r1 == [reg EXCEPT !.userToWebsocket = Del(@, userId),
                          !.userToIp = Del(@, userId)]
    IN  IF ip # Null THEN [r1 EXCEPT !.ipToUser = Del(@, ip)] ELSE r1

\* What one call of Chat.send did to world w: the registry it left, the frames
\* it handed to websocket.send and whether it threw.  The call is recorded in
\* sends with the handle it found and that handle's readyState.
SendCall(w, userId, after, frames, threw) ==
    LET websocket == Get(w.reg.userToWebsocket, userId)
        sent == [w EXCEPT !.reg = after,
                          !.written = @ \o frames,
                          !.threw = @ \/ threw]
    IN  [sent EXCEPT !.sends = Append(@,
            [userId |-> userId,
             handle |-> websocket,
             readyState |-> IF websocket = Null THEN "NONE"
                            ELSE sockets[websocket].readyState,
             ip |-> Get(w.reg.userToIp, userId),
             before |-> w.reg,
             after |-> after,
             wrote |-> Len(frames),
             storeChanged |-> StoreOf(sent) # StoreOf(w),
             threw |-> threw])]

\* A bug Chat.send could have: no test for a missing handle, so that reading
\* readyState of undefined throws a TypeError for a user who is not online.
sendUnchecked(w, userId, message) ==
    LET websocket == Get(w.reg.userToWebsocket, userId)
    IN  IF websocket = Null
        THEN SendCall(w, userId, w.reg, << >>, TRUE)
        ELSE IF sockets[websocket].readyState # "OPEN"
        THEN SendCall(w, userId, forgetUser(w.reg, userId), << >>, FALSE)
        ELSE SendCall(w, userId, w.reg,
                      << [conn |-> websocket, user |-> userId, frame |-> message] >>,
                      FALSE)

\* Chat.send
send(w, userId, message) ==
    LET websocket == Get(w.reg.userToWebsocket, userId)
    IN  IF websocket = Null
        THEN \* The user is not online. This is not an error.
             SendCall(w, userId, w.reg, << >>, FALSE)
        ELSE IF sockets[websocket].readyState # "OPEN"
        THEN SendCall(w, userId, forgetUser(w.reg, userId), << >>, FALSE)
        ELSE SendCall(w, userId, w.reg,
                      << [conn |-> websocket, user |-> userId, frame |-> message] >>,
                      FALSE)

(* ---------------------------- Relay engine ------------------------------ *)
\* The maximum number of messages to fetch when opening a new thread.
MESSAGE_HISTORY_LENGTH == 25

\* A bug sendThread could have: slice(0, n) instead of slice(-n).
SliceFirst(s, n) == IF Len(s) <= n THEN s ELSE SubSeq(s, 1, n)

\* The last n elements of a sequence (Array.slice(-n)).
SliceLast(s, n) == IF Len(s) <= n THEN s ELSE SubSeq(s, Len(s) - n + 1, Len(s))

\* The callback of messages.flatMap in sendThread: the frame entry of one
\* stored message, or nothing for a staff message whose author has no row.
HistoryEntry(w, dbMessage, pageReactions) ==
    IF dbMessage.discordAuthorId = Null
    THEN << [type |-> "server-replayed-message",
             id |-> dbMessage.discordMessageId,
             content |-> dbMessage.content,
             timestamp |-> dbMessage.createdAt] >>
    ELSE LET staff == getUserByDiscordId(w, dbMessage.discordAuthorId)
         IN  IF staff = Undefined THEN << >>
             ELSE << [type |-> "server-message",
                      id |-> dbMessage.discordMessageId,
                      content |-> dbMessage.content,
                      reactions |-> {r[2] : r \in {x \in pageReactions :
                                        x[1] = dbMessage.discordMessageId}},
                      authorAvatar |-> staff.avatarUrl,
                      authorName |-> staff.name,
                      timestamp |-> dbMessage.createdAt,
                      editedTimestamp |->
                          IF dbMessage.editedAt # dbMessage.createdAt
                          THEN dbMessage.editedAt ELSE NullId] >>

RECURSIVE FlatMapHistory(_, _, _)
FlatMapHistory(w, page, pageReactions) ==
    IF page = << >> THEN << >>
    ELSE HistoryEntry(w, Head(page), pageReactions)
            \o FlatMapHistory(w, Tail(page), pageReactions)

\* Bot.sendThread
sendThread(w, userId, threadId, requestType, getBefore) ==
    IF threadId = NullId THEN w
    ELSE LET thread == getThread(w, threadId)
             page == getThreadLastMessages(w, threadId,
                                           MESSAGE_HISTORY_LENGTH + 1, getBefore)
             pageReactions ==
                 IF page # << >>
                 THEN getReactions(w, threadId, page[1].discordMessageId,
                                   page[Len(page)].discordMessageId)
                 ELSE {}
             isAtBeginning == Len(page) <= MESSAGE_HISTORY_LENGTH
         IN  \* thread.discordThreadId of a missing row is a TypeError
             IF thread = Undefined THEN Throw(w)
             ELSE send(w, userId,
                       [type |-> "server-thread",
                        requestType |-> requestType,
                        id |-> thread.discordThreadId,
                        title |-> thread.title,
                        isAtBeginning |-> isAtBeginning,
                        messages |-> FlatMapHistory(w,
                            SliceLast(page, MESSAGE_HISTORY_LENGTH),
                            pageReactions)])

\* The last call of Chat.send of the segment took the branch that writes to
\* the socket: its promise settles only when the write completes.
LastSendOpen(w) == w.sends # << >> /\ w.sends[Len(w.sends)].wrote > 0

\* Bot.onMessage, case authenticate, after the server-threads frame was sent.
onMessageAuthenticateThread(w, userId) ==
    LET user == getUser(w, userId)
    IN  IF user = Undefined THEN Throw(w)
        ELSE sendThread(w, userId, user.currentThreadId, "authenticate", NullId)

\* Bot.onMessage, case message, after `await this.getThread(message.threadId)`
\* has given thread (Null for null): the segment up to webhook.send.
onMessageSendMessage(w, userId, thread) ==
    LET user == getUser(w, userId)
    IN  IF thread = Null THEN [w |-> w, pc |-> "done"]
        ELSE IF user = Undefined
        THEN \* user.name of undefined is a TypeError
             [w |-> Throw(w), pc |-> "done"]
        ELSE [w |-> w, pc |-> "webhookSend"]

\* Bot.onMessage, case renameThread, after `await this.getThread(...)` has
\* given thread: the segment up to thread.setName.
onMessageRename(w, thread) ==
    IF thread = Null THEN [w |-> w, pc |-> "done"]
    ELSE [w |-> w, pc |-> "setName"]

\* Bot.onMessage, cases reaction and removeReaction, after
\* `await this.getThread(threadId)` has given thread: the segment up to
\* thread.messages.fetch.
onMessageReact(w, thread) ==
    IF thread = Null THEN [w |-> w, pc |-> "done"]
    ELSE [w |-> w, pc |-> "messagesFetch"]

\* Bot.onMessage: the segment run when the message is passed in.  The result
\* is the world after it and where the handler waits: "threadsSent" when it
\* awaits the write of the server-threads frame, "done" when it has finished.
onMessage(w, userId, message) ==
    CASE message.type = "internal-authenticate" ->
            [w |-> IF ~hasUser(w, message.userId)
                   THEN createUser(w, [id |-> message.userId, discordId |-> Null,
                                       email |-> Null, name |-> message.userName,
                                       avatarUrl |-> Null,
                                       currentThreadId |-> NullId])
                   ELSE w,
             pc |-> "done"]
      [] message.type = "internal-authenticate-anonymously" ->
            [w |-> IF ~hasUser(w, message.userId)
                   THEN createUser(w, [id |-> message.userId, discordId |-> Null,
                                       email |-> message.email,
                                       name |-> message.email,
                                       avatarUrl |-> Null,
                                       currentThreadId |-> NullId])
                   ELSE w,
             pc |-> "done"]
      [] message.type = "authenticate" ->
            LET userThreads == getUserThreads(w, userId)
                w1 == send(w, userId,
                           [type |-> "server-threads",
                            threads |-> [i \in 1..Len(userThreads) |->
                                [id |-> userThreads[i].discordThreadId,
                                 title |-> userThreads[i].title,
                                 hasUnreadMessages |->
                                     userThreads[i].lastMessageReadId
                                         # userThreads[i].lastMessageSentId]]])
            IN  IF LastSendOpen(w1) THEN [w |-> w1, pc |-> "threadsSent"]
                ELSE [w |-> onMessageAuthenticateThread(w1, userId), pc |-> "done"]
      [] message.type = "authenticate-anonymously" ->
            \* Do not send any message history.
            [w |-> w, pc |-> "done"]
      [] message.type = "history-before" ->
            LET user == getUser(w, userId)
            IN  \* user.email: the users table has no email column, so the
                \* row read back never carries one
                [w |-> IF user = Undefined THEN Throw(w)
                       ELSE sendThread(w, userId, user.currentThreadId,
                                       "history-before", message.messageId),
                 pc |-> "done"]
      [] message.type = "switch-thread" ->
            LET w1 == updateUser(w, userId,
                                   [currentThreadId |-> message.threadId])
            IN  [w |-> IF w1.threw THEN w1
                       ELSE sendThread(w1, userId, message.threadId,
                                       "switch-thread", NullId),
                 pc |-> "done"]
      [] message.type = "mark-as-read" ->
            [w |-> updateThread(w, message.threadId,
                                [lastMessageReadId |-> message.messageId]),
             pc |-> "done"]
      [] message.type = "new-thread" ->
            \* await this.channel.threads.create({ name: message.title })
            [w |-> w, pc |-> "threadsCreate"]
      [] message.type = "message" ->
            \* Bot.getThread answers from this.threads, or fetches the channel
            IF message.threadId \in DOMAIN botThreads
            THEN onMessageSendMessage(w, userId, botThreads[message.threadId])
            ELSE [w |-> w, pc |-> "channelsFetch"]
      [] message.type = "rename-thread" ->
            IF message.threadId \in DOMAIN botThreads
            THEN onMessageRename(w, botThreads[message.threadId])
            ELSE [w |-> w, pc |-> "channelsFetch"]
      [] message.type \in {"reaction", "remove-reaction"} ->
            LET user == getUser(w, userId)
            IN  IF user = Undefined THEN [w |-> Throw(w), pc |-> "done"]
                ELSE IF user.currentThreadId = NullId
                THEN onMessageReact(w, Null)
                ELSE IF user.currentThreadId \in DOMAIN botThreads
                THEN onMessageReact(w, botThreads[user.currentThreadId])
                ELSE [w |-> w, pc |-> "channelsFetch"]
      [] OTHER -> [w |-> w, pc |-> "done"]

\* The callback Bot.start registers with chat.onMessage: onMessage inside
\* try/catch; a caught exception is logged and the callback returns.
messageCallback(w, userId, message) ==
    CHOOSE settled \in
        { [w |-> [r.w EXCEPT !.threw = FALSE],
           pc |-> IF r.w.threw THEN "done" ELSE r.pc,
           caught |-> r.w.threw] : r \in {onMessage(w, userId, message)} } : TRUE

(* --------------------------- external inputs ---------------------------- *)
\* What the identity endpoint (USERS_ME_PATH) answers for an access token:
\* the account, or a non-2xx status.
UsersMe(accessToken) ==
    CASE accessToken = "tokA" ->
            [ok |-> TRUE, id |-> "a1", name |-> "Ann", email |-> "ann@x.io"]
      [] accessToken = "tokB" ->
            [ok |-> TRUE, id |-> "b2", name |-> "Bob", email |-> "bob@x.io"]
      [] accessToken = "tokC" ->
            [ok |-> TRUE, id |-> "c3", name |-> "Cy", email |-> "cy@x.io"]
      [] OTHER ->
            [ok |-> FALSE, id |-> Null, name |-> Null, email |-> Null]

\* validator's isEmail, on the strings the model uses.
isEmail(str) == str \in {"e@x.io"}

\* A frame's data: binary or text; whether the text is JSON; the parsed value.
NoMessage == [type |-> "none"]

TextFrame(message) == [isBinary |-> FALSE, json |-> TRUE, message |-> message]

BinaryFrame == [isBinary |-> TRUE, json |-> FALSE, message |-> NoMessage]

GarbageFrame == [isBinary |-> FALSE, json |-> FALSE, message |-> NoMessage]

\* The frames clients send in the session specification.
SessionFrames ==
    { TextFrame([type |-> "authenticate", accessToken |-> tok]) :
        tok \in {"tokA", "tokB", "tokC", "expired"} }
    \cup { TextFrame([type |-> "authenticate-anonymously", email |-> e]) :
        e \in {"e@x.io", "nobody"} }
    \cup { TextFrame([type |-> "switch-thread", threadId |-> t]) : t \in {99} }
    \cup { BinaryFrame, GarbageFrame }

\* The platform events of the session specification: a registered and an
\* unregistered staff account writing in the customer's thread.
SessionEvents ==
    { [kind |-> "thread", channelId |-> 10, type |-> "Default",
       author |-> [id |-> a, bot |-> FALSE, system |-> FALSE, staffRole |-> TRUE],
       content |-> "Hello", attachments |-> << >>] : a \in {"s1", "s2"} }

(* ------------------------------ initial state --------------------------- *)
\* The store as earlier runs left it: Ann opened the thread "Help" with the
\* message "Hi"; Bob's last switch-thread named a thread the store does not
\* have (case switchThread stores the id it is given); the staff member s1
\* registered by direct message.  Cy has never connected.
InitUsers ==
    [u \in {"a1 ann@x.io", "b2 bob@x.io", "s1"} |->
        CASE u = "s1" ->
                [id |-> "s1", discordId |-> "s1", name |-> "Sam",
                 avatarUrl |-> "sam.png", currentThreadId |-> NullId]
          [] u = "a1 ann@x.io" ->
                [id |-> u, discordId |-> Null, name |-> "Ann",
                 avatarUrl |-> Null, currentThreadId |-> 10]
          [] OTHER ->
                [id |-> u, discordId |-> Null, name |-> "Bob",
                 avatarUrl |-> Null, currentThreadId |-> 99]]

InitThreads ==
    [t \in {10} |-> [discordThreadId |-> 10, userId |-> "a1 ann@x.io",
                     title |-> "Help", lastMessageSentId |-> 11,
                     lastMessageReadId |-> 11]]

InitMessages ==
    [m \in {11} |-> [discordMessageId |-> 11, discordThreadId |-> 10,
                     discordAuthorId |-> Null, content |-> "Hi",
                     createdAt |-> 11, editedAt |-> 11]]

\* No platform event was handled in the step.
NoEvent == [id |-> NullId, channelId |-> NullId, author |-> Null,
            kind |-> "none", content |-> Null, editedTimestamp |-> NullId,
            dm |-> FALSE, staffRole |-> FALSE, attachments |-> << >>]

\* No onWebSocketMessage call ran in the step.
NoTask == [conn |-> Null, seq |-> 0, message |-> NoMessage, pc |-> "none",
           userId |-> Null, engine |-> << >>, authedBefore |-> FALSE,
           authenticated |-> FALSE, sent |-> << >>, cur |-> NullId,
           res |-> "none", caught |-> << >>, thread |-> NullId,
           posted |-> NullId, event |-> NoEvent]

Init ==
    /\ ipToUser = EmptyMap
    /\ userToIp = EmptyMap
    /\ userToWebsocket = EmptyMap
    /\ sockets = [c \in Conns |->
                    [readyState |-> "NONE",
                     request |-> [forwardedFor |-> << >>, remoteAddress |-> Null]]]
    /\ tasks = {}
    /\ users = InitUsers
    /\ threads = InitThreads
    /\ messages = InitMessages
    /\ reactions = {}
    /\ nextId = 12
    /\ channels = DOMAIN InitThreads
    /\ botThreads = EmptyMap
    /\ gateway = {}
    /\ nFrames = 0
    /\ nEvents = 0
    /\ running = TRUE
    /\ handled = NoTask
    /\ written = << >>
    /\ sends = << >>
    /\ platformOps = << >>
    /\ connUser = [c \in Conns |-> Null]
    /\ effLast = [c \in Conns |-> 0]
    /\ effMax = [c \in Conns |-> 0]

(* ------------------------------- steps ---------------------------------- *)
\* The state after a handler segment that ends with world w.
SetWorld(w) ==
    \E after \in {w} :
        /\ ipToUser' = after.reg.ipToUser
        /\ userToIp' = after.reg.userToIp
        /\ userToWebsocket' = after.reg.userToWebsocket
        /\ users' = after.users
        /\ threads' = after.threads
        /\ messages' = after.messages
        /\ reactions' = after.reactions
        /\ written' = after.written
        /\ sends' = after.sends
        /\ platformOps' = after.ops

\* The segment changed the registry or the store, wrote a frame or called the
\* platform.
HasEffect(w) ==
    \E after \in {w} :
        \/ after.reg # World.reg
        \/ after.users # users \/ after.threads # threads
        \/ after.messages # messages \/ after.reactions # reactions
        \/ after.written # << >> \/ after.ops # << >>

\* Frame number seq of connection c had an effect, or had none, in this step.
NoteEffect(c, seq, effect) ==
    /\ effLast' = IF effect THEN [effLast EXCEPT ![c] = seq] ELSE effLast
    /\ effMax' = IF effect /\ seq > effMax[c] THEN [effMax EXCEPT ![c] = seq]
                 ELSE effMax

FrameTypes(w) == [i \in 1..Len(w.written) |-> w.written[i].frame.type]

\* The onWebSocketMessage call t has run a segment: it waits again when its pc
\* is not "done".
TaskStep(old, t) ==
    \E task \in {t} :
        /\ handled' = task
        /\ tasks' = (tasks \ old) \cup (IF task.pc = "done" THEN {} ELSE {task})

\* A rejected promise of onWebSocketMessage has no handler (the call is
\* prefixed with void): node ends the process, or only warns, depending on
\* its --unhandled-rejections mode.
UnhandledRejection == running' \in {TRUE, FALSE}

\* websocket.on('connection'): a client connects.
Connection(request) ==
    /\ running
    /\ UNCHANGED << channels, botThreads, gateway >>
    /\ \E i \in 1..MaxConns :
        /\ sockets[ConnName[i]].readyState = "NONE"
        /\ \A j \in 1..(i - 1) : sockets[ConnName[j]].readyState # "NONE"
        /\ sockets' = [sockets EXCEPT ![ConnName[i]] =
                          [readyState |-> "OPEN", request |-> request]]
    /\ handled' = NoTask
    /\ written' = << >> /\ sends' = << >> /\ platformOps' = << >>
    /\ UNCHANGED << ipToUser, userToIp, userToWebsocket, tasks, users, threads,
                    messages, reactions, nextId, nFrames, nEvents, running,
                    connUser, effLast, effMax >>

\* Chat.onWebSocketMessage, up to its first await of I/O.
onWebSocketMessage(c, data) ==
    LET request == sockets[c].request
        clientAddress == getClientAddress(request)
        message == data.message
        userId == Get(ipToUser, clientAddress)
        seq == nFrames + 1
        task == [conn |-> c, seq |-> seq, message |-> message, pc |-> "done",
                 userId |-> userId, engine |-> << >>,
                 authedBefore |-> connUser[c] # Null, authenticated |-> FALSE,
                 sent |-> << >>, cur |-> NullId, res |-> "handled",
                 caught |-> << >>, thread |-> NullId, posted |-> NullId,
                 event |-> NoEvent]
    IN
    /\ running
    /\ UNCHANGED << channels, botThreads, gateway >>
    /\ sockets[c].readyState = "OPEN"
    /\ nFrames' = seq
    /\ UNCHANGED << nextId, nEvents >>
    /\ IF data.isBinary \/ clientAddress = Null
       THEN /\ TaskStep({}, [task EXCEPT !.res = "ignored"])
            /\ SetWorld(World) /\ NoteEffect(c, seq, FALSE)
            /\ UNCHANGED << sockets, running, connUser >>
       ELSE IF ~data.json
       THEN \* JSON.parse throws
            /\ TaskStep({}, [task EXCEPT !.res = "unhandled"])
            /\ SetWorld(World) /\ NoteEffect(c, seq, FALSE)
            /\ UnhandledRejection
            /\ UNCHANGED << sockets, connUser >>
       ELSE IF message.type = "authenticate"
       THEN /\ TaskStep({}, [task EXCEPT !.pc = "fetch", !.res = "pending"])
            /\ SetWorld(World) /\ NoteEffect(c, seq, FALSE)
            /\ UNCHANGED << sockets, running, connUser >>
       ELSE IF message.type = "authenticate-anonymously"
       THEN IF message.email = Null \/ ~isEmail(message.email)
            THEN /\ TaskStep({}, [task EXCEPT !.userId = clientAddress,
                                              !.res = "invalid-email"])
                 /\ sockets' = [sockets EXCEPT ![c].readyState = "CLOSING"]
                 /\ SetWorld(Register(World, clientAddress, clientAddress, c))
                 /\ NoteEffect(c, seq, TRUE)
                 /\ UNCHANGED << running, connUser >>
            ELSE \E anonymous \in {Register(World, clientAddress, clientAddress, c)} :
                 \E internal \in
                    {messageCallback(anonymous, clientAddress,
                        [type |-> "internal-authenticate-anonymously",
                         userId |-> clientAddress, email |-> message.email])} :
                 \E welcomed \in
                    {messageCallback(internal.w, clientAddress, message)} :
                 /\ TaskStep({},
                        [task EXCEPT !.userId = clientAddress,
                                     !.authenticated = TRUE,
                                     !.engine = << "internal-authenticate-anonymously",
                                                   message.type >>,
                                     !.sent = FrameTypes(welcomed.w),
                                     !.caught = << internal.caught,
                                                   welcomed.caught >>,
                                     !.res = IF internal.caught \/ welcomed.caught
                                             THEN "caught" ELSE "handled"])
                 /\ connUser' = [connUser EXCEPT ![c] = clientAddress]
                 /\ SetWorld(welcomed.w) /\ NoteEffect(c, seq, TRUE)
                 /\ UNCHANGED << sockets, running >>
       ELSE IF userId = Null
       THEN /\ TaskStep({}, [task EXCEPT !.res = "unauthenticated"])
            /\ SetWorld(World) /\ NoteEffect(c, seq, FALSE)
            /\ UNCHANGED << sockets, running, connUser >>
       ELSE \E dispatched \in {messageCallback(World, userId, message)} :
            /\ TaskStep({},
                    [task EXCEPT !.engine = << message.type >>,
                                 !.cur = IF /\ message.type \in {"reaction",
                                                                  "remove-reaction"}
                                            /\ userId \in DOMAIN users
                                         THEN users[userId].currentThreadId
                                         ELSE NullId,
                                 !.sent = FrameTypes(dispatched.w),
                                 !.pc = dispatched.pc,
                                 !.caught = << dispatched.caught >>,
                                 !.res = IF dispatched.caught THEN "caught"
                                         ELSE IF dispatched.pc = "done"
                                         THEN "handled" ELSE "pending"])
            /\ SetWorld(dispatched.w) /\ NoteEffect(c, seq, HasEffect(dispatched.w))
            /\ UNCHANGED << sockets, running, connUser >>

\* Chat.onWebSocketMessage, authenticate branch, when the identity lookup
\* (fetch and userInfoRequest.json()) settles; networkError: it rejects.
FetchSettled(t, networkError) ==
    LET c == t.conn
        clientAddress == getClientAddress(sockets[c].request)
        userInfo == UsersMe(t.message.accessToken)
        userId == userInfo.id \o " " \o userInfo.email
    IN
    /\ running
    /\ UNCHANGED << channels, botThreads, gateway >>
    /\ t.pc = "fetch"
    /\ UNCHANGED << sockets, nextId, nFrames, nEvents >>
    /\ IF networkError
       THEN /\ TaskStep({t}, [t EXCEPT !.pc = "done", !.res = "unhandled"])
            /\ SetWorld(World) /\ NoteEffect(c, t.seq, FALSE)
            /\ UnhandledRejection
            /\ UNCHANGED connUser
       ELSE IF ~userInfo.ok
       THEN /\ TaskStep({t}, [t EXCEPT !.pc = "done", !.res = "rejected"])
            /\ SetWorld(World) /\ NoteEffect(c, t.seq, FALSE)
            /\ UNCHANGED << running, connUser >>
       ELSE \E registered \in {Register(World, clientAddress, userId, c)} :
            \E internal \in
                {messageCallback(registered, userId,
                    [type |-> "internal-authenticate", userId |-> userId,
                     userName |-> userInfo.name])} :
            \E replied \in {messageCallback(internal.w, userId, t.message)} :
            /\ TaskStep({t}, [t EXCEPT
                    !.userId = userId,
                    !.authenticated = TRUE,
                    !.engine = << "internal-authenticate", t.message.type >>,
                    !.sent = FrameTypes(replied.w),
                    !.cur = getUser(internal.w, userId).currentThreadId,
                    !.pc = replied.pc,
                    !.caught = << internal.caught, replied.caught >>,
                    !.res = IF internal.caught \/ replied.caught
                            THEN "caught"
                            ELSE IF replied.pc = "done" THEN "handled"
                            ELSE "pending"])
            /\ connUser' = [connUser EXCEPT ![c] = userId]
            /\ SetWorld(replied.w) /\ NoteEffect(c, t.seq, TRUE)
            /\ UNCHANGED running

\* Bot.onMessage, case authenticate, when the write of the server-threads
\* frame completes; error: websocket.send reports a transport error, which
\* rejects the awaited promise (caught by the callback's try/catch).
ThreadsWritten(t, error) ==
    /\ running
    /\ UNCHANGED << channels, botThreads, gateway >>
    /\ t.pc = "threadsSent"
    /\ \E r \in {IF error THEN Throw(World)
                 ELSE onMessageAuthenticateThread(World, t.userId)} :
       \E w \in {[r EXCEPT !.threw = FALSE]} :
       /\ TaskStep({t}, [t EXCEPT
            !.pc = "done",
            !.sent = @ \o FrameTypes(w),
            !.cur = IF t.userId \in DOMAIN users
                    THEN users[t.userId].currentThreadId ELSE NullId,
            !.caught = << t.caught[1], error \/ r.threw >>,
            !.res = IF error THEN "send-failed"
                    ELSE IF r.threw THEN "caught" ELSE "handled"])
       /\ SetWorld(w) /\ NoteEffect(t.conn, t.seq, HasEffect(w))
    /\ UNCHANGED << sockets, nextId, nFrames, nEvents, running, connUser >>

\* The 'error' event of a connection: the socket is destroyed (the 'close'
\* event follows) and Chat.onWebSocketError runs.
onWebSocketError(c) ==
    LET reg == removeClientReg(World.reg, sockets[c].request)
    IN
    /\ running
    /\ UNCHANGED << channels, botThreads, gateway >>
    /\ sockets[c].readyState = "OPEN"
    /\ sockets' = [sockets EXCEPT ![c].readyState = "CLOSING"]
    /\ handled' = NoTask
    /\ SetWorld([World EXCEPT !.reg = reg])
    /\ UNCHANGED << tasks, nextId, nFrames, nEvents, running, connUser,
                    effLast, effMax >>

\* The 'close' event of a connection: Chat.onWebSocketClose.
onWebSocketClose(c) ==
    LET reg == removeClientReg(World.reg, sockets[c].request)
    IN
    /\ running
    /\ UNCHANGED << channels, botThreads, gateway >>
    /\ sockets[c].readyState \in {"OPEN", "CLOSING"}
    /\ sockets' = [sockets EXCEPT ![c].readyState = "CLOSED"]
    /\ handled' = NoTask
    /\ SetWorld([World EXCEPT !.reg = reg])
    /\ UNCHANGED << tasks, nextId, nFrames, nEvents, running, connUser,
                    effLast, effMax >>

(* ------------------------ awaits of the platform ------------------------ *)
\* A segment of Bot.onMessage that resumes task t inside the callback's
\* try/catch and ends with result r (world and next pc).
EngineStep(t, result, thread, posted) ==
    \E r \in {result} :
    LET w == [r.w EXCEPT !.threw = FALSE]
        pc == IF r.w.threw THEN "done" ELSE r.pc
    IN  /\ TaskStep({t}, [t EXCEPT
                !.pc = pc,
                !.sent = @ \o FrameTypes(w),
                !.thread = thread,
                !.posted = posted,
                !.caught = << r.w.threw >>,
                !.res = IF r.w.threw THEN "caught"
                        ELSE IF pc = "done" THEN "handled" ELSE "pending"])
        /\ SetWorld(w)
        /\ NoteEffect(t.conn, t.seq,
                      HasEffect(w) \/ thread # t.thread \/ posted # t.posted)
        /\ UNCHANGED << sockets, nFrames, nEvents, running, connUser >>

\* Bot.onMessage, case newThread, when channel.threads.create settles; error:
\* it rejects.  The platform gives the new thread the next id.
ThreadCreated(t, error) ==
    LET threadId == nextId
        updated == updateUser(World, t.userId, [currentThreadId |-> threadId])
    IN
    /\ running
    /\ t.pc = "threadsCreate"
    /\ UNCHANGED << botThreads, gateway >>
    /\ IF error
       THEN /\ EngineStep(t, [w |-> Throw(World), pc |-> "done"], t.thread, t.posted)
            /\ UNCHANGED << nextId, channels >>
       ELSE /\ EngineStep(t, [w |-> updated, pc |-> "newThreadWebhook"],
                          threadId, t.posted)
            /\ nextId' = nextId + 1
            /\ channels' = channels \cup {threadId}

\* Bot.onMessage, case newThread, when webhook.send settles; error: it
\* rejects.  The platform gives the posted message the next id.
NewThreadMessageSent(t, error) ==
    LET messageId == nextId
        threadId == t.thread
        w1 == createThread(World,
                 [discordThreadId |-> threadId, userId |-> t.userId,
                  title |-> t.message.title, lastMessageSentId |-> messageId,
                  lastMessageReadId |-> messageId])
        w2 == createMessage(w1,
                 [discordMessageId |-> messageId, discordThreadId |-> threadId,
                  discordAuthorId |-> Null, content |-> t.message.content,
                  createdAt |-> messageId, editedAt |-> messageId])
        w3 == send(w2, t.userId,
                 [type |-> "server-thread", requestType |-> "new-thread",
                  id |-> threadId, title |-> t.message.title,
                  isAtBeginning |-> TRUE,
                  messages |-> << [type |-> "server-replayed-message",
                                   id |-> messageId,
                                   content |-> t.message.content,
                                   timestamp |-> messageId] >>])
    IN
    /\ running
    /\ t.pc = "newThreadWebhook"
    /\ UNCHANGED << channels, botThreads, gateway >>
    /\ IF error
       THEN /\ EngineStep(t, [w |-> Throw(World), pc |-> "done"], t.thread, t.posted)
            /\ UNCHANGED nextId
       ELSE /\ EngineStep(t, [w |-> IF w1.threw THEN w1
                                    ELSE IF w2.threw THEN w2 ELSE w3,
                              pc |-> "done"],
                          t.thread, messageId)
            /\ nextId' = nextId + 1

\* Bot.getThread when client.channels.fetch settles (error: it rejects): the
\* result is cached in this.threads, and Bot.onMessage goes on: cases message
\* and renameThread with the thread the frame names, cases reaction and
\* removeReaction with the thread that was the user's current one when the
\* frame was passed in.
ThreadFetched(t, error) ==
    LET threadId == IF t.message.type \in {"message", "rename-thread"}
                    THEN t.message.threadId
                    ELSE t.cur
        result == IF threadId \in channels THEN "thread" ELSE Null
    IN
    /\ running
    /\ t.pc = "channelsFetch"
    /\ UNCHANGED << nextId, channels, gateway >>
    /\ IF error
       THEN /\ EngineStep(t, [w |-> Throw(World), pc |-> "done"], t.thread, t.posted)
            /\ UNCHANGED botThreads
       ELSE /\ EngineStep(t, IF t.message.type = "message"
                             THEN onMessageSendMessage(World, t.userId, result)
                             ELSE IF t.message.type = "rename-thread"
                             THEN onMessageRename(World, result)
                             ELSE onMessageReact(World, result),
                          t.thread, t.posted)
            /\ botThreads' = Put(botThreads, threadId, result)

\* Bot.onMessage, case renameThread, when thread.setName settles; error: it
\* rejects.
ThreadRenamed(t, error) ==
    /\ running
    /\ t.pc = "setName"
    /\ UNCHANGED << nextId, channels, botThreads, gateway >>
    /\ IF error
       THEN EngineStep(t, [w |-> Throw(World), pc |-> "done"], t.thread, t.posted)
       ELSE EngineStep(t, [w |-> updateThread(World, t.message.threadId,
                                              [title |-> t.message.title]),
                           pc |-> "done"],
                       t.thread, t.posted)

\* The messages of thread threadId that the platform has: those in the Store
\* and those whose create event is on its way.
PlatformHas(threadId, messageId) ==
    \/ /\ messageId \in DOMAIN messages
       /\ messages[messageId].discordThreadId = threadId
    \/ \E e \in gateway : e.id = messageId /\ e.event.channelId = threadId

\* Bot.onMessage, cases reaction and removeReaction, when
\* thread.messages.fetch(message.messageId) settles; error: it rejects, as it
\* does for a message the thread does not have.
MessageFetched(t, error) ==
    /\ running
    /\ t.pc = "messagesFetch"
    /\ UNCHANGED << nextId, channels, botThreads, gateway >>
    /\ IF error \/ ~PlatformHas(t.cur, t.message.messageId)
       THEN EngineStep(t, [w |-> Throw(World), pc |-> "done"], t.thread, t.posted)
       ELSE EngineStep(t, [w |-> World,
                           pc |-> IF t.message.type = "reaction"
                                  THEN "react" ELSE "usersRemove"],
                       t.thread, t.posted)

\* Bot.onMessage, case reaction, when discordMessage.react settles; error: it
\* rejects.
Reacted(t, error) ==
    /\ running
    /\ t.pc = "react"
    /\ UNCHANGED << nextId, channels, botThreads, gateway >>
    /\ IF error
       THEN EngineStep(t, [w |-> Throw(World), pc |-> "done"], t.thread, t.posted)
       ELSE EngineStep(t, [w |-> createReaction(World,
                                    [discordMessageId |-> t.message.messageId,
                                     reaction |-> t.message.reaction]),
                           pc |-> "done"],
                       t.thread, t.posted)

\* Bot.onMessage, case removeReaction, when the removal of the bot's reaction
\* on the platform settles; error: it rejects.
ReactionRemoved(t, error) ==
    /\ running
    /\ t.pc = "usersRemove"
    /\ UNCHANGED << nextId, channels, botThreads, gateway >>
    /\ IF error
       THEN EngineStep(t, [w |-> Throw(World), pc |-> "done"], t.thread, t.posted)
       ELSE EngineStep(t, [w |-> deleteReaction(World,
                                    [discordMessageId |-> t.message.messageId,
                                     reaction |-> t.message.reaction]),
                           pc |-> "done"],
                       t.thread, t.posted)

\* Bot.onMessage, case message, when webhook.send settles; error: it rejects.
MessageSent(t, error) ==
    LET messageId == nextId
        created == createMessage(World,
                      [discordMessageId |-> messageId,
                       discordThreadId |-> t.message.threadId,
                       discordAuthorId |-> Null, content |-> t.message.content,
                       createdAt |-> messageId, editedAt |-> messageId])
    IN
    /\ running
    /\ t.pc = "webhookSend"
    /\ UNCHANGED << channels, botThreads, gateway >>
    /\ IF error
       THEN /\ EngineStep(t, [w |-> Throw(World), pc |-> "done"], t.thread, t.posted)
            /\ UNCHANGED nextId
       ELSE /\ EngineStep(t, [w |-> created, pc |-> "done"], t.thread, messageId)
            /\ nextId' = nextId + 1

(* --------------------------- platform events ---------------------------- *)
\* A bug the test for a blank name could have: /^$/ instead of /^\s*$/.
IsBlankEmptyOnly(content) == content = ""

\* /^\s*$/.test(content) and content.includes('\n'), on the model's strings
IsBlank(content) == content \in {"", " "}

HasNewline(content) == content \in {"Sam\nSmith"}

Op(w, op) == [w EXCEPT !.ops = Append(@, op)]

\* A bug onDiscordMessageCreate could have: no author counts as automated.
IsAutomatedNever(author) == FALSE

\* message.author.bot || message.author.system
IsAutomated(author) == author.bot \/ author.system

\* Bot.onDiscordMessageCreate for the message with the given id.  The store
\* and the registry are touched in one segment of the handler (after
\* guild.members.fetch in the direct-message branch, before the replies); the
\* platform calls are recorded in ops and taken to succeed.
discordMessageCreate(w, event, id) ==
    LET threadId == event.channelId
        authorId == event.author.id
        staff == getUserByDiscordId(w, authorId)
        created == createMessage(w,
                      [discordMessageId |-> id, discordThreadId |-> threadId,
                       discordAuthorId |-> authorId, content |-> event.content,
                       createdAt |-> id, editedAt |-> id])
        updated == updateThread(created, threadId,
                                [lastMessageSentId |-> id])
        thread == getThread(updated, threadId)
        user == getUser(updated, thread.userId)
        avatar == event.attachments[1]
    IN
    IF IsAutomated(event.author)
    THEN w   \* Ignore automated messages.
    ELSE IF event.kind = "thread" /\ hasThread(w, threadId) /\ event.type = "Default"
    THEN IF staff = Undefined
         THEN Op(Op(w, [op |-> "delete", id |-> id]),
                 [op |-> "direct-message", to |-> authorId,
                  text |-> "You are not registered"])
         ELSE IF created.threw THEN created
         ELSE IF updated.threw THEN updated
         ELSE IF user = Undefined THEN Throw(updated)
         ELSE IF threadId = user.currentThreadId
         THEN send(updated, thread.userId,
                   [type |-> "server-message", id |-> id,
                    authorAvatar |-> staff.avatarUrl, authorName |-> staff.name,
                    content |-> event.content, reactions |-> {},
                    timestamp |-> id, editedTimestamp |-> NullId])
         ELSE updated
    ELSE IF event.kind = "dm" /\ event.type = "Default"
    THEN IF ~event.author.staffRole THEN w
         ELSE IF Len(event.attachments) # 1
         THEN Op(w, [op |-> "reply", text |-> "You must upload exactly one photo for your avatar."])
         ELSE IF IsBlank(event.content)
         THEN Op(w, [op |-> "reply", text |-> "You must send your full name with your image."])
         ELSE IF HasNewline(event.content)
         THEN Op(w, [op |-> "reply", text |-> "Your name must not span multiple names."])
         ELSE IF staff = Undefined
         THEN LET w1 == createUser(w, [id |-> authorId, discordId |-> authorId,
                                       email |-> Null, name |-> event.content,
                                       avatarUrl |-> avatar,
                                       currentThreadId |-> NullId])
              IN  IF w1.threw THEN w1
                  ELSE Op(w1, [op |-> "reply", text |-> "Created user profile."])
         ELSE LET w1 == updateUser(w, authorId,
                            [name |-> event.content, avatarUrl |-> avatar])
              IN  IF w1.threw THEN w1
                  ELSE Op(w1, [op |-> "reply", text |-> "Updated user profile."])
    ELSE w

\* The MessageCreate listener of Bot.start: onDiscordMessageCreate inside
\* try/catch, for a message the platform has just assigned the next id.
onDiscordMessageCreate(event) ==
    \E r \in {discordMessageCreate(World, event, nextId)} :
    /\ running
    /\ UNCHANGED << channels, botThreads, gateway >>
    /\ nEvents < MaxEvents
    /\ nEvents' = nEvents + 1
    /\ nextId' = nextId + 1
    /\ handled' = [NoTask EXCEPT !.event = [NoEvent EXCEPT
                                            !.kind = "create",
                                            !.id = nextId,
                                            !.channelId = event.channelId,
                                            !.author = event.author.id,
                                            !.content = event.content,
                                            !.dm = (event.kind = "dm"),
                                            !.staffRole = event.author.staffRole,
                                            !.attachments = event.attachments]]
    /\ SetWorld([r EXCEPT !.threw = FALSE])
    /\ UNCHANGED << sockets, tasks, nFrames, running, connUser, effLast, effMax >>

\* A staff member posts a message on the platform, which assigns it the next
\* id; the create event is delivered later.
StaffPosts(event) ==
    /\ running
    /\ nEvents' = nEvents + 1
    /\ nextId' = nextId + 1
    /\ gateway' = gateway \cup {[id |-> nextId, event |-> event]}
    /\ handled' = NoTask
    /\ SetWorld(World)
    /\ UNCHANGED << sockets, tasks, channels, botThreads, nFrames, running,
                    connUser, effLast, effMax >>

\* The MessageCreate listener of Bot.start, for a create event e that the
\* platform delivers now: the events of different messages are not ordered.
GatewayDelivers(e) ==
    /\ running
    /\ e \in gateway
    /\ \E r \in {discordMessageCreate(World, e.event, e.id)} :
            SetWorld([r EXCEPT !.threw = FALSE])
    /\ gateway' = gateway \ {e}
    /\ handled' = [NoTask EXCEPT !.event = [NoEvent EXCEPT
                                            !.kind = "create",
                                            !.id = e.id,
                                            !.channelId = e.event.channelId,
                                            !.author = e.event.author.id,
                                            !.content = e.event.content,
                                            !.dm = (e.event.kind = "dm"),
                                            !.staffRole = e.event.author.staffRole,
                                            !.attachments = e.event.attachments]]
    /\ UNCHANGED << sockets, tasks, nextId, channels, botThreads, nFrames,
                    nEvents, running, connUser, effLast, effMax >>

\* The create event the platform emits for the message m that the adapter
\* posted through its webhook: the author is the webhook, an automated actor.
WebhookEvent(m) ==
    [kind |-> "thread", channelId |-> messages[m].discordThreadId,
     type |-> "Default",
     author |-> [id |-> "webhook", bot |-> TRUE, system |-> FALSE,
                 staffRole |-> FALSE],
     content |-> messages[m].content, attachments |-> << >>]

\* The MessageCreate listener of Bot.start, for the create event of the
\* adapter's own post m.
WebhookEcho(m) ==
    \E r \in {discordMessageCreate(World, WebhookEvent(m), m)} :
    /\ running
    /\ m \in DOMAIN messages
    /\ messages[m].discordAuthorId = Null
    /\ nEvents' = nEvents + 1
    /\ handled' = [NoTask EXCEPT
                      !.caught = << r.threw >>,
                      !.event = [NoEvent EXCEPT
                                    !.kind = "create",
                                    !.id = m,
                                    !.channelId = messages[m].discordThreadId,
                                    !.author = "webhook"]]
    /\ SetWorld([r EXCEPT !.threw = FALSE])
    /\ UNCHANGED << sockets, tasks, nextId, channels, botThreads, gateway,
                    nFrames, running, connUser, effLast, effMax >>

\* Bot.onDiscordMessageUpdate for the edit event newMessage (content and
\* editedTimestamp are null when the platform sends a partial message).
discordMessageUpdate(w, newMessage) ==
    LET threadId == newMessage.channelId
        messageId == newMessage.id
        updated == updateMessage(w, messageId,
                                 [editedAt |-> newMessage.editedTimestamp])
        thread == getThread(updated, threadId)
        user == getUser(updated, thread.userId)
    IN
    IF newMessage.kind = "thread" /\ hasThread(w, threadId)
    THEN IF updated.threw THEN updated
         ELSE IF newMessage.content = Null THEN updated
         ELSE IF newMessage.editedTimestamp = NullId THEN updated
         ELSE IF user = Undefined THEN Throw(updated)
         ELSE IF threadId = user.currentThreadId
         THEN send(updated, thread.userId,
                   [type |-> "server-edited-message",
                    timestamp |-> newMessage.editedTimestamp,
                    id |-> messageId,
                    content |-> newMessage.content])
         ELSE updated
    ELSE w

\* The MessageUpdate listener of Bot.start: onDiscordMessageUpdate inside
\* try/catch, for an edit event the platform delivers.
onDiscordMessageUpdate(newMessage) ==
    \E r \in {discordMessageUpdate(World, newMessage)} :
    /\ running
    /\ nEvents' = nEvents + 1
    /\ handled' = [NoTask EXCEPT
                      !.caught = << r.threw >>,
                      !.event = [NoEvent EXCEPT
                                    !.kind = "update",
                                    !.id = newMessage.id,
                                    !.channelId = newMessage.channelId,
                                    !.content = newMessage.content,
                                    !.editedTimestamp = newMessage.editedTimestamp]]
    /\ SetWorld([r EXCEPT !.threw = FALSE])
    /\ UNCHANGED << sockets, tasks, nextId, channels, botThreads, gateway,
                    nFrames, running, connUser, effLast, effMax >>

Next ==
    \/ \E request \in Requests : Connection(request)
    \/ \E c \in Conns, data \in SessionFrames :
            nFrames < MaxTasks /\ onWebSocketMessage(c, data)
    \/ \E t \in tasks, networkError \in BOOLEAN : FetchSettled(t, networkError)
    \/ \E t \in tasks, error \in BOOLEAN : ThreadsWritten(t, error)
    \/ \E c \in Conns : onWebSocketError(c)
    \/ \E c \in Conns : onWebSocketClose(c)
    \/ \E event \in SessionEvents : onDiscordMessageCreate(event)

Spec == Init /\ [][Next]_vars

(* ------------------------- the engine specification --------------------- *)
\* The frames and events of the engine specification: one client address,
\* whose connections stay open; the customer opens threads, writes, reads
\* and scrolls back while staff write in the thread "Help".
MaxEngineFrames == 3

MaxEngineEvents == 2

EngineRequests == { [forwardedFor |-> << >>, remoteAddress |-> "ip1"] }

EngineFrames ==
    { TextFrame([type |-> "authenticate", accessToken |-> "tokA"]),
      TextFrame([type |-> "authenticate-anonymously", email |-> "e@x.io"]),
      TextFrame([type |-> "new-thread", title |-> "T", content |-> "Q"]),
      TextFrame([type |-> "switch-thread", threadId |-> 10]),
      TextFrame([type |-> "history-before", messageId |-> 12]),
      TextFrame([type |-> "message", threadId |-> 10, content |-> "M"]),
      TextFrame([type |-> "mark-as-read", threadId |-> 10, messageId |-> 12]) }

EngineEvents ==
    { [kind |-> "thread", channelId |-> 10, type |-> "Default",
       author |-> [id |-> "s1", bot |-> FALSE, system |-> FALSE,
                   staffRole |-> TRUE],
       content |-> "Hello", attachments |-> << >>] }

EngineNext ==
    \/ \E request \in EngineRequests : Connection(request)
    \/ \E c \in Conns, data \in EngineFrames :
            nFrames < MaxEngineFrames /\ onWebSocketMessage(c, data)
    \/ \E t \in tasks, networkError \in BOOLEAN : FetchSettled(t, networkError)
    \/ \E t \in tasks, error \in BOOLEAN : ThreadsWritten(t, error)
    \/ \E t \in tasks, error \in BOOLEAN : ThreadCreated(t, error)
    \/ \E t \in tasks, error \in BOOLEAN : NewThreadMessageSent(t, error)
    \/ \E t \in tasks, error \in BOOLEAN : ThreadFetched(t, error)
    \/ \E t \in tasks, error \in BOOLEAN : MessageSent(t, error)
    \/ \E event \in EngineEvents :
            nEvents < MaxEngineEvents /\ StaffPosts(event)
    \/ \E e \in gateway : GatewayDelivers(e)

EngineSpec == Init /\ [][EngineNext]_vars

(* -------------------------- the staff specification --------------------- *)
\* Staff register and rename themselves by direct message and write in the
\* thread "Help", in any order, while Ann comes online.
MaxStaffFrames == 1

MaxStaffEvents == 3

StaffAccount(id) == [id |-> id, bot |-> FALSE, system |-> FALSE, staffRole |-> TRUE]

StaffEvents ==
    { [kind |-> "thread", channelId |-> 10, type |-> "Default",
       author |-> StaffAccount(a), content |-> "Hello",
       attachments |-> << >>] : a \in {"s1", "s2"} }
    \cup { [kind |-> "dm", channelId |-> NullId, type |-> "Default",
            author |-> StaffAccount("s2"), content |-> "Sue",
            attachments |-> << "sue.png" >>],
           [kind |-> "dm", channelId |-> NullId, type |-> "Default",
            author |-> StaffAccount("s1"), content |-> "Sam S",
            attachments |-> << "sam2.png" >>],
           [kind |-> "dm", channelId |-> NullId, type |-> "Default",
            author |-> StaffAccount("s2"), content |-> "Sue",
            attachments |-> << >>],
           [kind |-> "dm", channelId |-> NullId, type |-> "Default",
            author |-> StaffAccount("s1"), content |-> "Sam S",
            attachments |-> << "sam2.png", "sam3.png" >>],
           [kind |-> "dm", channelId |-> NullId, type |-> "Default",
            author |-> StaffAccount("s2"), content |-> " ",
            attachments |-> << "sue.png" >>],
           [kind |-> "dm", channelId |-> NullId, type |-> "Default",
            author |-> StaffAccount("s1"), content |-> "Sam\nSmith",
            attachments |-> << "sam2.png" >>],
           [kind |-> "dm", channelId |-> NullId, type |-> "Default",
            author |-> [id |-> "x9", bot |-> FALSE, system |-> FALSE,
                        staffRole |-> FALSE],
            content |-> "Eve", attachments |-> << "eve.png" >>] }

StaffFrames == { TextFrame([type |-> "authenticate", accessToken |-> "tokA"]) }

StaffNext ==
    \/ \E request \in EngineRequests : Connection(request)
    \/ \E c \in Conns, data \in StaffFrames :
            nFrames < MaxStaffFrames /\ onWebSocketMessage(c, data)
    \/ \E t \in tasks, networkError \in BOOLEAN : FetchSettled(t, networkError)
    \/ \E t \in tasks, error \in BOOLEAN : ThreadsWritten(t, error)
    \/ \E event \in StaffEvents :
            nEvents < MaxStaffEvents /\ StaffPosts(event)
    \/ \E e \in gateway : GatewayDelivers(e)

StaffSpec == Init /\ [][StaffNext]_vars

(* --------------------------- the edit specification --------------------- *)
\* Ann comes online, looks at her thread and writes in it while the staff
\* member s1 writes in it and messages of the thread are updated on the
\* platform, with or without the content and the edit timestamp in the event.
MaxEditFrames == 2

MaxEditEvents == 3

EditFrames ==
    { TextFrame([type |-> "authenticate", accessToken |-> "tokA"]),
      TextFrame([type |-> "switch-thread", threadId |-> 10]),
      TextFrame([type |-> "message", threadId |-> 10, content |-> "M"]) }

EditEvents ==
    { [kind |-> "thread", channelId |-> 10, id |-> m, content |-> c,
       editedTimestamp |-> ts] :
        m \in {11, 12, 13}, c \in {"Edited", Null}, ts \in {40, NullId} }

\* The platform lets only its author edit a message, and the adapter never
\* edits what it posted through the webhook: an update event with an edit
\* timestamp is about a staff message, whose create event may still be on
\* its way.  Every message that was posted can get update events that are
\* not edits (a pin, a resolved embed), which carry no edit timestamp.
PlatformEmits(newMessage) ==
    IF newMessage.editedTimestamp # NullId
    THEN \/ \E e \in gateway : e.id = newMessage.id
         \/ /\ newMessage.id \in DOMAIN messages
            /\ messages[newMessage.id].discordAuthorId # Null
    ELSE /\ newMessage.id # NullId
         /\ IdLess(newMessage.id, nextId)

EditNext ==
    \/ \E request \in EngineRequests :
            sockets["ws1"].readyState = "NONE" /\ Connection(request)
    \/ \E c \in Conns, data \in EditFrames :
            nFrames < MaxEditFrames /\ onWebSocketMessage(c, data)
    \/ \E t \in tasks, networkError \in BOOLEAN : FetchSettled(t, networkError)
    \/ \E t \in tasks, error \in BOOLEAN : ThreadsWritten(t, error)
    \/ \E t \in tasks, error \in BOOLEAN : ThreadFetched(t, error)
    \/ \E t \in tasks, error \in BOOLEAN : MessageSent(t, error)
    \/ \E event \in EngineEvents :
            nEvents < MaxEditEvents /\ StaffPosts(event)
    \/ \E e \in gateway : GatewayDelivers(e)
    \/ \E m \in DOMAIN messages :
            nEvents < MaxEditEvents /\ WebhookEcho(m)
    \/ \E newMessage \in EditEvents :
            /\ nEvents < MaxEditEvents
            /\ PlatformEmits(newMessage)
            /\ onDiscordMessageUpdate(newMessage)

EditSpec == Init /\ [][EditNext]_vars

(* --------------------------- the page specification --------------------- *)
\* The relay starts on a Store that earlier runs have filled: Ann's thread
\* "Help" holds the messages 11 .. 10 + n, written in turn by Ann and by the
\* staff member s1; in a mixed Store every fifth id is a message of Bob's
\* thread 20 instead.  Ann then authenticates and asks for pages.
MaxStored == 27

MaxPageFrames == 2

\* The in-memory state of Chat and Bot after construction.
Constructed ==
    /\ ipToUser = EmptyMap
    /\ userToIp = EmptyMap
    /\ userToWebsocket = EmptyMap
    /\ sockets = [c \in Conns |->
                    [readyState |-> "NONE",
                     request |-> [forwardedFor |-> << >>, remoteAddress |-> Null]]]
    /\ tasks = {}
    /\ botThreads = EmptyMap
    /\ gateway = {}
    /\ nFrames = 0
    /\ nEvents = 0
    /\ running = TRUE
    /\ handled = NoTask
    /\ written = << >>
    /\ sends = << >>
    /\ platformOps = << >>
    /\ connUser = [c \in Conns |-> Null]
    /\ effLast = [c \in Conns |-> 0]
    /\ effMax = [c \in Conns |-> 0]

StoredThreadOf(m, mixed) == IF mixed /\ m % 5 = 0 THEN 20 ELSE 10

StoredMessages(n, mixed) ==
    [m \in 11..(10 + n) |->
        [discordMessageId |-> m, discordThreadId |-> StoredThreadOf(m, mixed),
         discordAuthorId |-> IF m % 2 = 0 THEN "s1" ELSE Null,
         content |-> "Hi", createdAt |-> m, editedAt |-> m]]

StoredThreads(n, mixed) ==
    [t \in (IF mixed /\ n >= 5 THEN {10, 20} ELSE {10}) |->
        LET last == CHOOSE m \in 11..(10 + n) :
                        /\ StoredThreadOf(m, mixed) = t
                        /\ \A k \in (m + 1)..(10 + n) : StoredThreadOf(k, mixed) # t
        IN  [discordThreadId |-> t,
             userId |-> IF t = 10 THEN "a1 ann@x.io" ELSE "b2 bob@x.io",
             title |-> "Help", lastMessageSentId |-> last,
             lastMessageReadId |-> last]]

PageInit ==
    /\ Constructed
    /\ \E n \in 1..MaxStored, mixed \in BOOLEAN :
        /\ users = InitUsers
        /\ threads = StoredThreads(n, mixed)
        /\ messages = StoredMessages(n, mixed)
        /\ reactions = {}
        /\ nextId = 11 + n
        /\ channels = DOMAIN StoredThreads(n, mixed)

PageFrames ==
    { TextFrame([type |-> "authenticate", accessToken |-> "tokA"]),
      TextFrame([type |-> "switch-thread", threadId |-> 10]) }
    \cup { TextFrame([type |-> "history-before", messageId |-> m]) :
                m \in {11, 13, 35, 37, 38} }

PageNext ==
    \/ \E request \in EngineRequests :
            sockets["ws1"].readyState = "NONE" /\ Connection(request)
    \/ \E c \in Conns, data \in PageFrames :
            nFrames < MaxPageFrames /\ onWebSocketMessage(c, data)
    \/ \E t \in tasks, networkError \in BOOLEAN : FetchSettled(t, networkError)
    \/ \E t \in tasks, error \in BOOLEAN : ThreadsWritten(t, error)

PageSpec == PageInit /\ [][PageNext]_vars

(* --------------------------- the relay specification -------------------- *)
\* Ann has two threads, "Help" and "Bill"; she comes online, switches
\* between them (or to a thread that does not exist), and adds and removes a
\* reaction, while the staff member s1 writes in both threads.
MaxRelayFrames == 3

MaxRelayEvents == 2

RelayThreads ==
    [t \in {10, 20} |->
        [discordThreadId |-> t, userId |-> "a1 ann@x.io",
         title |-> IF t = 10 THEN "Help" ELSE "Bill",
         lastMessageSentId |-> t + 1, lastMessageReadId |-> t + 1]]

RelayMessages ==
    [m \in {11, 21} |->
        [discordMessageId |-> m, discordThreadId |-> m - 1,
         discordAuthorId |-> Null, content |-> "Hi",
         createdAt |-> m, editedAt |-> m]]

RelayInit ==
    /\ Constructed
    /\ users = InitUsers
    /\ threads = RelayThreads
    /\ messages = RelayMessages
    /\ reactions = {}
    /\ nextId = 22
    /\ channels = DOMAIN RelayThreads

RelayFrames ==
    { TextFrame([type |-> "authenticate", accessToken |-> "tokA"]),
      TextFrame([type |-> "switch-thread", threadId |-> 20]),
      TextFrame([type |-> "switch-thread", threadId |-> 99]),
      TextFrame([type |-> "reaction", messageId |-> 11, reaction |-> "+1"]),
      TextFrame([type |-> "remove-reaction", messageId |-> 11,
                 reaction |-> "+1"]) }

RelayEvents ==
    { [kind |-> "thread", channelId |-> t, type |-> "Default",
       author |-> StaffAccount("s1"), content |-> "Hello",
       attachments |-> << >>] : t \in {10, 20} }

RelayNext ==
    \/ \E request \in EngineRequests :
            sockets["ws1"].readyState = "NONE" /\ Connection(request)
    \/ \E c \in Conns, data \in RelayFrames :
            nFrames < MaxRelayFrames /\ onWebSocketMessage(c, data)
    \/ \E t \in tasks, networkError \in BOOLEAN : FetchSettled(t, networkError)
    \/ \E t \in tasks, error \in BOOLEAN : ThreadsWritten(t, error)
    \/ \E t \in tasks, error \in BOOLEAN : ThreadFetched(t, error)
    \/ \E t \in tasks, error \in BOOLEAN : MessageFetched(t, error)
    \/ \E t \in tasks, error \in BOOLEAN : Reacted(t, error)
    \/ \E t \in tasks, error \in BOOLEAN : ReactionRemoved(t, error)
    \/ \E event \in RelayEvents :
            nEvents < MaxRelayEvents /\ StaffPosts(event)
    \/ \E e \in gateway : GatewayDelivers(e)

RelaySpec == RelayInit /\ [][RelayNext]_vars

(* --------------------------- the owner specification -------------------- *)
\* Ann and Bob have a thread each.  Ann comes online and sends frames that
\* name her thread or Bob's, while the staff member s1 writes in both threads
\* and edits what he wrote.
MaxOwnerFrames == 3

MaxOwnerEvents == 2

OwnerThreads ==
    [t \in {10, 30} |->
        [discordThreadId |-> t,
         userId |-> IF t = 10 THEN "a1 ann@x.io" ELSE "b2 bob@x.io",
         title |-> IF t = 10 THEN "Help" ELSE "Bill",
         lastMessageSentId |-> t + 1, lastMessageReadId |-> t + 1]]

OwnerMessages ==
    [m \in {11, 31} |->
        [discordMessageId |-> m, discordThreadId |-> m - 1,
         discordAuthorId |-> Null, content |-> "Hi",
         createdAt |-> m, editedAt |-> m]]

OwnerUsers ==
    [InitUsers EXCEPT !["b2 bob@x.io"].currentThreadId = 30]

OwnerInit ==
    /\ Constructed
    /\ users = OwnerUsers
    /\ threads = OwnerThreads
    /\ messages = OwnerMessages
    /\ reactions = {}
    /\ nextId = 32
    /\ channels = DOMAIN OwnerThreads

OwnerFrames ==
    { TextFrame([type |-> "authenticate", accessToken |-> "tokA"]),
      TextFrame([type |-> "switch-thread", threadId |-> 30]),
      TextFrame([type |-> "rename-thread", threadId |-> 10, title |-> "Mine"]),
      TextFrame([type |-> "rename-thread", threadId |-> 30, title |-> "Mine"]),
      TextFrame([type |-> "message", threadId |-> 30, content |-> "M"]),
      TextFrame([type |-> "mark-as-read", threadId |-> 30, messageId |-> 29]) }

OwnerEvents ==
    { [kind |-> "thread", channelId |-> t, type |-> "Default",
       author |-> StaffAccount("s1"), content |-> "Hello",
       attachments |-> << >>] : t \in {10, 30} }

OwnerEdits ==
    { [kind |-> "thread", channelId |-> t, id |-> 32, content |-> "Edited",
       editedTimestamp |-> 40] : t \in {10, 30} }

OwnerNext ==
    \/ \E request \in EngineRequests :
            sockets["ws1"].readyState = "NONE" /\ Connection(request)
    \/ \E c \in Conns, data \in OwnerFrames :
            nFrames < MaxOwnerFrames /\ onWebSocketMessage(c, data)
    \/ \E t \in tasks, networkError \in BOOLEAN : FetchSettled(t, networkError)
    \/ \E t \in tasks, error \in BOOLEAN : ThreadsWritten(t, error)
    \/ \E t \in tasks, error \in BOOLEAN : ThreadFetched(t, error)
    \/ \E t \in tasks, error \in BOOLEAN : ThreadRenamed(t, error)
    \/ \E t \in tasks, error \in BOOLEAN : MessageSent(t, error)
    \/ \E event \in OwnerEvents :
            nEvents < MaxOwnerEvents /\ StaffPosts(event)
    \/ \E e \in gateway : GatewayDelivers(e)
    \/ \E newMessage \in OwnerEdits :
            /\ nEvents < MaxOwnerEvents
            /\ PlatformEmits(newMessage)
            /\ PlatformHas(newMessage.channelId, newMessage.id)
            /\ onDiscordMessageUpdate(newMessage)

OwnerSpec == OwnerInit /\ [][OwnerNext]_vars

(* --------------------------- the scrollback specification --------------- *)
\* The Store holds a history as in the page specification, long enough for
\* three pages.  Ann authenticates, gets the most recent page of her thread,
\* and her client then asks, page after page, for the messages before the
\* oldest one it was sent last.
MaxScrollStored == 52

ScrollInit ==
    /\ Constructed
    /\ \E n \in 1..MaxScrollStored, mixed \in BOOLEAN :
        /\ users = InitUsers
        /\ threads = StoredThreads(n, mixed)
        /\ messages = StoredMessages(n, mixed)
        /\ reactions = {}
        /\ nextId = 11 + n
        /\ channels = DOMAIN StoredThreads(n, mixed)

\* The client has just been sent a page that is not the beginning of the
\* thread, and sends history-before with the id of the oldest message of it.
ScrollPending ==
    /\ Len(written) = 1
    /\ written[1].frame.type = "server-thread"
    /\ ~written[1].frame.isAtBeginning
    /\ written[1].frame.messages # << >>

ScrollBack ==
    /\ ScrollPending
    /\ onWebSocketMessage("ws1",
            TextFrame([type |-> "history-before",
                       messageId |-> written[1].frame.messages[1].id]))

ScrollNext ==
    \/ \E request \in EngineRequests :
            sockets["ws1"].readyState = "NONE" /\ Connection(request)
    \/ /\ nFrames = 0
       /\ onWebSocketMessage("ws1",
                TextFrame([type |-> "authenticate", accessToken |-> "tokA"]))
    \/ \E t \in tasks, networkError \in BOOLEAN : FetchSettled(t, networkError)
    \/ \E t \in tasks, error \in BOOLEAN : ThreadsWritten(t, error)
    \/ ScrollBack

\* The client keeps asking: while it has a page to ask beyond, its frame is
\* received at last.  nFrames counts the frames received, and ScrollBack is
\* the only step of ScrollNext that receives one while ScrollPending holds.
ScrollSpec ==
    /\ ScrollInit
    /\ [][ScrollNext]_vars
    /\ WF_nFrames(ScrollPending /\ nFrames' = nFrames + 1)

(* ------------------------- the thread-life specification ---------------- *)
\* Ann comes online and opens a thread, which the platform gives the id 12;
\* she writes in it and renames it, possibly before it exists, and the staff
\* member s1 writes in it as soon as it exists on the platform.
MaxLifeFrames == 4

MaxLifeEvents == 1

LifeFrames ==
    { TextFrame([type |-> "authenticate", accessToken |-> "tokA"]),
      TextFrame([type |-> "new-thread", title |-> "T", content |-> "Q"]),
      TextFrame([type |-> "message", threadId |-> 12, content |-> "M"]),
      TextFrame([type |-> "rename-thread", threadId |-> 12, title |-> "R"]) }

LifeEvents ==
    { [kind |-> "thread", channelId |-> 12, type |-> "Default",
       author |-> StaffAccount("s1"), content |-> "Hello",
       attachments |-> << >>] }

LifeNext ==
    \/ \E request \in EngineRequests :
            sockets["ws1"].readyState = "NONE" /\ Connection(request)
    \/ \E c \in Conns, data \in LifeFrames :
            nFrames < MaxLifeFrames /\ onWebSocketMessage(c, data)
    \/ \E t \in tasks, networkError \in BOOLEAN : FetchSettled(t, networkError)
    \/ \E t \in tasks, error \in BOOLEAN : ThreadsWritten(t, error)
    \/ \E t \in tasks, error \in BOOLEAN : ThreadCreated(t, error)
    \/ \E t \in tasks, error \in BOOLEAN : NewThreadMessageSent(t, error)
    \/ \E t \in tasks, error \in BOOLEAN : ThreadFetched(t, error)
    \/ \E t \in tasks, error \in BOOLEAN : ThreadRenamed(t, error)
    \/ \E t \in tasks, error \in BOOLEAN : MessageSent(t, error)
    \/ \E event \in LifeEvents :
            /\ nEvents < MaxLifeEvents
            /\ event.channelId \in channels
            /\ StaffPosts(event)
    \/ \E e \in gateway : GatewayDelivers(e)

LifeSpec == Init /\ [][LifeNext]_vars

(* ------------------------------ properties ------------------------------ *)
\* The registry and the store, as one value each.
Registry == << ipToUser, userToIp, userToWebsocket >>

Store == << users, threads, messages, reactions >>

\* C1: in every reachable state the three registry maps are mutually
\* consistent: ipToUser[a] = u exactly when userToIp[u] = a, and
\* userToWebsocket has an entry for u exactly when userToIp has one (so no
\* registration leaves a mapping behind for the address's previous user or the
\* user's previous address).
C1_RegistryConsistent ==
    /\ \A a \in DOMAIN ipToUser : Get(userToIp, ipToUser[a]) = a
    /\ \A u \in DOMAIN userToIp : Get(ipToUser, userToIp[u]) = u
    /\ DOMAIN userToWebsocket = DOMAIN userToIp

\* C2: a frame other than authenticate / authenticate-anonymously is passed to
\* the relay engine only if the connection it arrived on has itself completed
\* an authentication handshake before (frames arrive on open connections only).
C2_DispatchOnlyAuthenticated ==
    ( /\ handled.engine # << >>
      /\ handled.message.type \notin {"authenticate", "authenticate-anonymously"} )
        => handled.authedBefore

\* C3: no inbound event takes down the relay: the process keeps running and no
\* exception raised while handling a frame or event is left uncaught.
C3_NoEventTakesDownRelay == running /\ handled.res # "unhandled"

\* C4: on every connection the effects of frames happen in arrival order: the
\* frame whose effect came last is the latest frame that has had any effect,
\* so no effect of an earlier frame follows an effect of a later one.
C4_FramesInArrivalOrder == \A c \in Conns : effLast[c] = effMax[c]

\* C5: once the close event of a connection has been handled, the registry
\* holds no mapping to that connection, its address is not mapped to the user
\* it authenticated as unless that user is registered on another connection,
\* and a send to a user whose handle is closed writes nothing and does not
\* throw.
C5_ClosedConnectionForgotten ==
    /\ \A c \in Conns :
        sockets[c].readyState = "CLOSED" =>
            /\ \A u \in DOMAIN userToWebsocket : userToWebsocket[u] # c
            /\ LET a == getClientAddress(sockets[c].request)
               IN  ( /\ connUser[c] # Null
                     /\ Get(ipToUser, a) = connUser[c] )
                        => /\ connUser[c] \in DOMAIN userToWebsocket
                           /\ userToWebsocket[connUser[c]] # c
    /\ \A i \in 1..Len(sends) :
        sends[i].readyState = "CLOSED" => sends[i].wrote = 0 /\ ~sends[i].threw

\* C6: a call of send for a user whose registered handle is not open writes to
\* no transport, does not throw, and leaves the user without an entry in
\* userToWebsocket and userToIp and the registry without the ipToUser entry of
\* the address userToIp held for the user.
C6_StaleSendForgetsUser ==
    \A i \in 1..Len(sends) :
        LET s == sends[i]
        IN  (s.handle # Null /\ s.readyState # "OPEN") =>
                /\ s.wrote = 0
                /\ ~s.threw
                /\ s.userId \notin DOMAIN s.after.userToWebsocket
                /\ s.userId \notin DOMAIN s.after.userToIp
                /\ s.ip # Null => s.ip \notin DOMAIN s.after.ipToUser

\* A send found a handle that is closing or closed, with the user's address
\* still mapped in ipToUser.
C6_Witness ==
    \E i \in 1..Len(sends) :
        /\ sends[i].handle # Null
        /\ sends[i].readyState \in {"CLOSING", "CLOSED"}
        /\ sends[i].ip \in DOMAIN sends[i].before.ipToUser

\* C7: a call of send for a user with no registered connection does not throw,
\* writes to no transport and leaves the registry and the store as they were.
C7_OfflineSendIsNoOp ==
    \A i \in 1..Len(sends) :
        LET s == sends[i]
        IN  s.userId \notin DOMAIN s.before.userToWebsocket =>
                /\ ~s.threw
                /\ s.wrote = 0
                /\ s.after = s.before
                /\ ~s.storeChanged

\* A staff message was relayed to the thread's owner while the owner had no
\* registered connection and another user was online.
C7_Witness ==
    /\ platformOps = << >>
    /\ handled.event.author = "s1"
    /\ \E i \in 1..Len(sends) :
        /\ sends[i].userId \notin DOMAIN sends[i].before.userToWebsocket
        /\ sends[i].before.userToWebsocket # EmptyMap

\* C8: handling an authenticate frame whose token the identity endpoint
\* rejects drops the connection, sends no frame, does not invoke the relay
\* engine and leaves the registry and the store unchanged.
C8_RejectedTokenFailsClosed ==
    [][ handled'.res = "rejected" =>
            /\ sockets'[handled'.conn].readyState # "OPEN"
            /\ written' = << >>
            /\ handled'.engine = << >>
            /\ Registry' = Registry
            /\ Store' = Store ]_vars

\* C9: handling an authenticate-anonymously frame whose email is not a valid
\* address closes the transport, sends no frame, creates no user row and
\* creates or changes no registry mapping.
C9_InvalidEmailFailsClosed ==
    [][ handled'.res = "invalid-email" =>
            /\ sockets'[handled'.conn].readyState # "OPEN"
            /\ written' = << >>
            /\ users' = users
            /\ Registry' = Registry ]_vars

\* C10: when the handling of an authenticate frame with an accepted token has
\* finished on a connection that is still open and still the user's
\* registered handle, and no transport write failed, the user's row exists
\* and the frames sent are one server-threads frame followed by one
\* server-thread frame if the user's currentThreadId is non-null, and the
\* server-threads frame alone if it is null.
C10_AuthenticateReplies ==
    ( /\ handled.message.type = "authenticate"
      /\ handled.authenticated
      /\ handled.pc = "done"
      /\ handled.res # "send-failed"
      /\ sockets[handled.conn].readyState = "OPEN"
      /\ Get(userToWebsocket, handled.userId) = handled.conn )
        => /\ handled.userId \in DOMAIN users
           /\ handled.sent = IF handled.cur # NullId
                             THEN << "server-threads", "server-thread" >>
                             ELSE << "server-threads" >>

\* C11: when the identity lookup of an authenticate frame is accepted, the
\* user id is the account's id and email joined by a space, whatever the
\* connection and whatever happened before; after the step there is exactly
\* one row with that id; a row that existed before the step is unchanged; and
\* the internal-authenticate callback has not thrown (no duplicate-key insert).
C11_ReauthenticationIsIdempotent ==
    [][ \A t \in tasks :
            ( /\ t.pc = "fetch"
              /\ handled'.seq = t.seq
              /\ handled'.authenticated )
                => LET account == UsersMe(t.message.accessToken)
                       userId == handled'.userId
                   IN  /\ userId = account.id \o " " \o account.email
                       /\ Cardinality({u \in DOMAIN users' : users'[u].id = userId}) = 1
                       /\ userId \in DOMAIN users => users'[userId] = users[userId]
                       /\ handled'.caught[1] = FALSE ]_vars

\* The same account has authenticated on both connections, the second time
\* just now: its row, created by the first authentication, was there already.
C11_Witness ==
    /\ handled.authenticated
    /\ handled.message.type = "authenticate"
    /\ handled.userId = "c3 cy@x.io"
    /\ \A c \in {"ws1", "ws2"} : connUser[c] = "c3 cy@x.io"
    /\ handled.caught[1] = FALSE

\* C12: handling a valid authenticate-anonymously frame from address A with
\* email E registers A as user A on the frame's connection, sends no frame,
\* leaves an existing row with id A unchanged and otherwise creates the row
\* (id = A, email = E, name = E, currentThreadId = null).
C12_AnonymousAuthentication ==
    [][ ( /\ handled'.message.type = "authenticate-anonymously"
          /\ handled'.authenticated )
            => LET A == getClientAddress(sockets[handled'.conn].request)
                   E == handled'.message.email
               IN  /\ Get(ipToUser', A) = A
                   /\ Get(userToIp', A) = A
                   /\ Get(userToWebsocket', A) = handled'.conn
                   /\ written' = << >>
                   /\ A \in DOMAIN users'
                   /\ A \in DOMAIN users => users'[A] = users[A]
                   /\ A \notin DOMAIN users =>
                        /\ users'[A].id = A
                        /\ users'[A].name = E
                        /\ users'[A].currentThreadId = NullId
                        /\ "email" \in DOMAIN users'[A]
                        /\ users'[A].email = E ]_vars


\* C13: a history-before frame from a user who authenticated anonymously (the
\* user id is the client address; such a user has an email) never produces a
\* server-thread frame, and for a platform-authenticated user whose current
\* thread is in the Store it produces exactly one server-thread frame with
\* requestType history-before for that thread.
ServerThreadFrames(frames) ==
    { i \in 1..Len(frames) : frames[i].frame.type = "server-thread" }

C13_HistoryOnlyForPlatformUsers ==
    [][ ( /\ handled'.message.type = "history-before"
          /\ handled'.engine = << "history-before" >> )
            => LET userId == handled'.userId
                   page == ServerThreadFrames(written')
               IN  /\ userId \in Addrs => page = {}
                   /\ ( /\ userId \notin Addrs
                        /\ userId \in DOMAIN users
                        /\ users[userId].currentThreadId \in DOMAIN threads )
                        => /\ Cardinality(page) = 1
                           /\ \A i \in page :
                                /\ written'[i].frame.requestType = "history-before"
                                /\ written'[i].frame.id = users[userId].currentThreadId
       ]_vars

\* C14: when a new-thread frame of user U has been handled and the adapter
\* calls (threads.create, webhook.send) succeeded, the Store holds a Thread
\* row for the new platform thread with userId = U, the requested title and
\* lastMessageSentId = lastMessageReadId = the id of the initial message, a
\* Message row with that id in that thread with null author, and
\* U.currentThreadId is the new thread.
C14_NewThreadPersisted ==
    [][ ( /\ handled'.message.type = "new-thread"
          /\ handled'.pc = "done"
          /\ handled'.posted # NullId )
            => LET U == handled'.userId
                   threadId == handled'.thread
                   messageId == handled'.posted
               IN  /\ threadId \in DOMAIN threads'
                   /\ threads'[threadId].userId = U
                   /\ threads'[threadId].title = handled'.message.title
                   /\ threads'[threadId].lastMessageSentId = messageId
                   /\ threads'[threadId].lastMessageReadId = messageId
                   /\ messageId \in DOMAIN messages'
                   /\ messages'[messageId].discordThreadId = threadId
                   /\ messages'[messageId].discordAuthorId = Null
                   /\ U \in DOMAIN users'
                   /\ users'[U].currentThreadId = threadId
       ]_vars

\* C15: handling a new-thread frame sends exactly one frame, a server-thread
\* frame with requestType new-thread, isAtBeginning true and one
\* server-replayed-message carrying the submitted content, and it is written
\* to the connection that sent the new-thread frame and to no other.
C15_NewThreadReplyToOrigin ==
    [][ ( /\ handled'.message.type = "new-thread"
          /\ handled'.pc = "done"
          /\ handled'.posted # NullId )
            => /\ Len(written') = 1
               /\ written'[1].conn = handled'.conn
               /\ LET frame == written'[1].frame
                  IN  /\ frame.type = "server-thread"
                      /\ frame.requestType = "new-thread"
                      /\ frame.isAtBeginning
                      /\ frame.id = handled'.thread
                      /\ Len(frame.messages) = 1
                      /\ frame.messages[1].type = "server-replayed-message"
                      /\ frame.messages[1].content = handled'.message.content
       ]_vars

\* C16: whenever a message is persisted in a tracked thread by sending (a
\* customer message frame, or a create event from registered staff), the
\* thread's lastMessageSentId becomes the id of that message and differs from
\* lastMessageReadId (the thread has unread messages), unless the thread had
\* been marked as read up to that very id beforehand; and a mark-as-read with
\* the id of the last message sent makes the two equal again.
C16_SendingMarksUnread ==
    [][ /\ \A m \in DOMAIN messages' \ DOMAIN messages :
             LET threadId == messages'[m].discordThreadId
             IN  ( /\ \/ handled'.message.type = "message"
                      \/ handled'.event.id = m
                   /\ threadId \in DOMAIN threads
                   /\ threads[threadId].lastMessageReadId # m )
                    => /\ threads'[threadId].lastMessageSentId = m
                       /\ threads'[threadId].lastMessageReadId # m
        /\ ( /\ handled'.engine = << "mark-as-read" >>
             /\ handled'.message.threadId \in DOMAIN threads
             /\ threads[handled'.message.threadId].lastMessageSentId
                    = handled'.message.messageId )
            => LET thread == threads'[handled'.message.threadId]
               IN  thread.lastMessageReadId = thread.lastMessageSentId
      ]_vars

\* C17: for every thread, no step (new-thread, message, mark-as-read or a
\* create event, the events arriving in any order relative to their ids)
\* decreases lastMessageSentId under the platform's ordering of ids.
C17_LastMessageSentIdMonotonic ==
    [][ \A threadId \in DOMAIN threads :
            /\ threadId \in DOMAIN threads'
            /\ ~IdLess(threads'[threadId].lastMessageSentId,
                       threads[threadId].lastMessageSentId) ]_vars

\* C18: a create event in a tracked thread from an account that has no User
\* row (staff who have not registered) creates no Message row, leaves the
\* thread row (and with it lastMessageSentId) unchanged and sends no frame;
\* the message is deleted from the platform and its sender is prompted by
\* direct message to register.
C18_UnregisteredStaffNotRelayed ==
    [][ ( /\ handled'.event.author # Null
          /\ handled'.event.channelId \in DOMAIN threads
          /\ \A u \in DOMAIN users :
                users[u].discordId # handled'.event.author )
            => /\ messages' = messages
               /\ threads' = threads
               /\ written' = << >>
               /\ Len(platformOps') = 2
               /\ platformOps'[1] = [op |-> "delete", id |-> handled'.event.id]
               /\ platformOps'[2].op = "direct-message"
               /\ platformOps'[2].to = handled'.event.author
      ]_vars

\* The unregistered staff member s2 has written in Ann's thread while Ann was
\* online, and the message was deleted.
C18_Witness ==
    /\ handled.event.author = "s2"
    /\ handled.event.channelId = 10
    /\ Get(userToWebsocket, "a1 ann@x.io") # Null
    /\ users["a1 ann@x.io"].currentThreadId = 10
    /\ Len(platformOps) = 2
    /\ handled.event.id \notin DOMAIN messages

\* C19: in every reachable state, every Message row with a non-null author
\* id has a User row whose platform account id (discordId) is that author id.
C19_AuthorsAreRegistered ==
    \A m \in DOMAIN messages :
        messages[m].discordAuthorId # Null
            => \E u \in DOMAIN users :
                    users[u].discordId = messages[m].discordAuthorId

\* A message of s2, who registered by direct message, is in the Store.
C19_Witness ==
    \E m \in DOMAIN messages : messages[m].discordAuthorId = "s2"

\* C20: a server-message frame is sent to user U only for a staff message
\* that is in the Store, in a thread owned by U that is U's currentThreadId
\* at that moment; a message of registered staff in a tracked thread that is
\* not its owner's current thread is persisted without any frame; and when the
\* delivery is dropped or fails, the Message row and the advanced
\* lastMessageSentId stay in place.
C20_LiveRelayOnlyForCurrentThread ==
    [][ /\ \A i \in 1..Len(written') :
             written'[i].frame.type = "server-message"
                => LET U == written'[i].user
                       id == written'[i].frame.id
                   IN  /\ id = handled'.event.id
                       /\ id \in DOMAIN messages'
                       /\ messages'[id].discordAuthorId # Null
                       /\ messages'[id].discordThreadId \in DOMAIN threads'
                       /\ threads'[messages'[id].discordThreadId].userId = U
                       /\ U \in DOMAIN users'
                       /\ users'[U].currentThreadId = messages'[id].discordThreadId
        /\ ( /\ handled'.event.author # Null
             /\ handled'.event.channelId \in DOMAIN threads
             /\ \E u \in DOMAIN users :
                    users[u].discordId = handled'.event.author )
            => LET id == handled'.event.id
                   threadId == handled'.event.channelId
                   U == threads[threadId].userId
                   current == /\ U \in DOMAIN users
                              /\ users[U].currentThreadId = threadId
                   delivered == \E i \in 1..Len(written') :
                                    written'[i].frame.type = "server-message"
               IN  /\ ~current => written' = << >>
                   /\ ~delivered
                        => /\ id \in DOMAIN messages'
                           /\ messages'[id].discordThreadId = threadId
                           /\ threads'[threadId].lastMessageSentId = id
      ]_vars

\* Ann, online with thread 10 as her current thread, has been sent the
\* message which s1 has just written in that thread.
C20_Witness ==
    /\ handled.event.author = "s1"
    /\ Len(written) = 1
    /\ written[1].frame.type = "server-message"
    /\ written[1].user = "a1 ann@x.io"
    /\ written[1].frame.id \in DOMAIN messages
    /\ users["a1 ann@x.io"].currentThreadId = 10

\* The arguments getThreadLastMessages is examined with: both threads, a
\* limit of none, one, a few and a full page plus one, and anchors below,
\* within and above the stored ids.
QueryLimits == {0, 1, 3, MESSAGE_HISTORY_LENGTH + 1}

QueryAnchors ==
    {NullId, 11, 12, 10 + MaxStored, 11 + MaxStored}
        \cup {m \in 11..(11 + MaxStored) : m % 4 = 0}

\* C24: getThreadLastMessages(thread, limit, before) returns, in ascending
\* order of id, exactly the min(limit, k) messages with the greatest ids among
\* the k messages of the thread whose id is below `before` (all its messages
\* when `before` is null): none of another thread, none at or above `before`,
\* and none of the thread between two returned ones left out.
C24_LastMessagesOfThread ==
    \A threadId \in {10, 20}, limit \in QueryLimits, getBefore \in QueryAnchors :
        LET result == getThreadLastMessages(World, threadId, limit, getBefore)
            K == {m \in DOMAIN messages :
                    /\ messages[m].discordThreadId = threadId
                    /\ (getBefore = NullId \/ IdLess(m, getBefore))}
            ids == {result[i].discordMessageId : i \in 1..Len(result)}
        IN  /\ Len(result) = IF limit < Cardinality(K) THEN limit
                             ELSE Cardinality(K)
            /\ \A i \in 1..Len(result) :
                /\ result[i].discordMessageId \in K
                /\ result[i] = messages[result[i].discordMessageId]
                /\ \A j \in (i + 1)..Len(result) :
                    IdLess(result[i].discordMessageId, result[j].discordMessageId)
            /\ \A m \in K \ ids : \A r \in ids : IdLess(m, r)

\* Ann has been sent a page of her thread before an anchor, from a Store that
\* also holds messages of Bob's thread and messages of hers at and after the
\* anchor.
C24_Witness ==
    /\ handled.message.type = "history-before"
    /\ 20 \in DOMAIN threads
    /\ Len(written) = 1
    /\ written[1].frame.type = "server-thread"
    /\ Len(written[1].frame.messages) > 3
    /\ \E m \in DOMAIN messages :
        /\ messages[m].discordThreadId = 10
        /\ ~IdLess(m, handled.message.messageId)

\* C25: in every server-thread frame built by sendThread the page holds at
\* most 25 messages in ascending order of id, and isAtBeginning is true
\* exactly when the thread has no stored message with an id below the oldest
\* message of the page (for an empty page: below the anchor, or none at all
\* when there is no anchor).
C25_PageAndIsAtBeginning ==
    \A i \in 1..Len(written) :
        written[i].frame.type = "server-thread"
            => LET frame == written[i].frame
                   page == frame.messages
                   anchor == IF handled.message.type = "history-before"
                             THEN handled.message.messageId ELSE NullId
                   older == {m \in DOMAIN messages :
                                /\ messages[m].discordThreadId = frame.id
                                /\ IF page # << >> THEN IdLess(m, page[1].id)
                                   ELSE anchor = NullId \/ IdLess(m, anchor)}
               IN  /\ Len(page) <= MESSAGE_HISTORY_LENGTH
                   /\ \A j \in 1..Len(page), k \in 1..Len(page) :
                        j < k => IdLess(page[j].id, page[k].id)
                   /\ frame.isAtBeginning <=> older = {}

\* Ann has been sent a full page of 25 messages that is not the beginning of
\* her thread.
C25_Witness ==
    /\ Len(written) = 1
    /\ written[1].frame.type = "server-thread"
    /\ Len(written[1].frame.messages) = MESSAGE_HISTORY_LENGTH
    /\ ~written[1].frame.isAtBeginning

\* C21: a customer message frame for a resolvable thread results in exactly
\* one Message row, with null author, for the posted message, and in no frame
\* written to any socket; the create event the platform emits for that post
\* of the adapter is ignored: it changes no row of the store, writes no frame
\* and calls nothing on the platform.
C21_MessagePersistedOnceNoEcho ==
    [][ /\ handled'.message.type = "message"
            => LET new == DOMAIN messages' \ DOMAIN messages
               IN  /\ written' = << >>
                   /\ \A m \in DOMAIN messages : messages'[m] = messages[m]
                   /\ IF handled'.posted # NullId
                      THEN /\ new = {handled'.posted}
                           /\ messages'[handled'.posted].discordAuthorId = Null
                           /\ messages'[handled'.posted].discordThreadId
                                  = handled'.message.threadId
                           /\ messages'[handled'.posted].content
                                  = handled'.message.content
                      ELSE new = {}
        /\ handled'.event.author = "webhook"
            => /\ messages' = messages
               /\ threads' = threads
               /\ users' = users
               /\ reactions' = reactions
               /\ written' = << >>
               /\ platformOps' = << >>
               /\ handled'.caught = << FALSE >>
      ]_vars

\* The create event of a message that Ann posted with a message frame has
\* been handled.
C21_Witness ==
    /\ handled.event.author = "webhook"
    /\ handled.event.id \in DOMAIN messages
    /\ handled.event.id # 11
    /\ messages[handled.event.id].content = "M"

\* C22: an update event in a tracked thread whose content or whose edit
\* timestamp is missing is a no-op: the handler raises no error, every
\* Message row stays as it was and no frame is written.
C22_PartialEditIsNoOp ==
    [][ ( /\ handled'.event.kind = "update"
          /\ handled'.event.channelId \in DOMAIN threads
          /\ \/ handled'.event.content = Null
             \/ handled'.event.editedTimestamp = NullId )
            => /\ messages' = messages
               /\ written' = << >>
               /\ handled'.caught = << FALSE >>
      ]_vars

\* C23: when the edit of a persisted staff message is relayed with a
\* server-edited-message frame, the history page of the thread that
\* sendThread builds from the store after that step shows the message with the
\* content and the edit timestamp of the frame.
C23_HistoryAgreesWithEdit ==
    [][ \A i \in 1..Len(written') :
            LET frame == written'[i].frame
            IN  ( /\ frame.type = "server-edited-message"
                  /\ frame.id \in DOMAIN messages'
                  /\ messages'[frame.id].discordAuthorId # Null )
                    => LET w == World'
                           page == getThreadLastMessages(w,
                                      messages'[frame.id].discordThreadId,
                                      MESSAGE_HISTORY_LENGTH + 1, NullId)
                           entries == FlatMapHistory(w,
                                         SliceLast(page, MESSAGE_HISTORY_LENGTH),
                                         {})
                       IN  \A j \in 1..Len(entries) :
                               entries[j].id = frame.id
                                   => /\ entries[j].content = frame.content
                                      /\ entries[j].editedTimestamp = frame.timestamp
      ]_vars

C29_DirectMessageRegistration ==
    [][ handled'.event.dm
            => LET ev == handled'.event
                   blank == ev.content \in {"", " "}
                   multiline == ev.content = "Sam\nSmith"
                   valid == /\ Len(ev.attachments) = 1
                            /\ ~blank
                            /\ ~multiline
                   known == {v \in DOMAIN users : users[v].discordId = ev.author}
               IN  /\ threads' = threads
                   /\ messages' = messages
                   /\ reactions' = reactions
                   /\ written' = << >>
                   /\ (ev.staffRole /\ valid)
                        => /\ \E u \in DOMAIN users' :
                                /\ users'[u].discordId = ev.author
                                /\ users'[u].id = u
                                /\ users'[u].name = ev.content
                                /\ users'[u].avatarUrl = ev.attachments[1]
                                /\ known \subseteq {u}
                                /\ DOMAIN users' = DOMAIN users \cup {u}
                                /\ u \in DOMAIN users
                                    => /\ users'[u].id = users[u].id
                                       /\ users'[u].currentThreadId
                                              = users[u].currentThreadId
                           /\ \A v \in DOMAIN users \ known : users'[v] = users[v]
                   /\ (ev.staffRole /\ ~valid)
                        => /\ users' = users
                           /\ Len(platformOps') = 1
                           /\ platformOps'[1].op = "reply"
                           /\ platformOps'[1].text =
                                IF Len(ev.attachments) # 1
                                THEN "You must upload exactly one photo for your avatar."
                                ELSE IF blank
                                THEN "You must send your full name with your image."
                                ELSE "Your name must not span multiple names."
                   /\ ~ev.staffRole
                        => /\ users' = users
                           /\ platformOps' = << >>
      ]_vars

\* The staff member s2 registered by direct message, sent a blank name
\* afterwards, and the row kept the name of the registration.
C29_Witness ==
    /\ handled.event.dm
    /\ handled.event.author = "s2"
    /\ handled.event.content = " "
    /\ "s2" \in DOMAIN users
    /\ users["s2"].name = "Sue"
    /\ users["s1"].name = "Sam S"

\* C26: after a switch-thread {T} frame of the authenticated user U is
\* handled, U.currentThreadId = T and exactly one frame has been written, to
\* U: a server-thread frame with id T, requestType switch-thread and the most
\* recent page of T; and a message of registered staff in a tracked thread is
\* relayed live to the thread's owner when the thread is the owner's current
\* one and the owner is online, and not relayed when it is not the current one
\* (such as the thread the owner switched away from).
C26_SwitchThread ==
    [][ /\ handled'.engine = << "switch-thread" >>
            => LET U == handled'.userId
                   T == handled'.message.threadId
                   K == {m \in DOMAIN messages' :
                            messages'[m].discordThreadId = T}
               IN  /\ users'[U].currentThreadId = T
                   /\ Len(written') = 1
                   /\ written'[1].user = U
                   /\ written'[1].frame.type = "server-thread"
                   /\ written'[1].frame.id = T
                   /\ written'[1].frame.requestType = "switch-thread"
                   /\ LET page == written'[1].frame.messages
                      IN  /\ {page[j].id : j \in 1..Len(page)} = K
                          /\ \A j \in 1..Len(page), k \in 1..Len(page) :
                                j < k => IdLess(page[j].id, page[k].id)
        /\ ( /\ handled'.event.kind = "create"
             /\ handled'.event.channelId \in DOMAIN threads
             /\ \E u \in DOMAIN users : users[u].discordId = handled'.event.author )
            => LET T == handled'.event.channelId
                   U == threads[T].userId
                   websocket == Get(userToWebsocket, U)
               IN  IF users[U].currentThreadId = T
                   THEN ( /\ websocket # Null
                          /\ sockets[websocket].readyState = "OPEN" )
                            => /\ Len(written') = 1
                               /\ written'[1].user = U
                               /\ written'[1].frame.type = "server-message"
                               /\ written'[1].frame.id = handled'.event.id
                   ELSE written' = << >>
      ]_vars

C28_CreateReactionIdempotent ==
    \A t \in tasks :
        t.pc = "react"
            => ~createReaction(World,
                    [discordMessageId |-> t.message.messageId,
                     reaction |-> t.message.reaction]).threw

\* C32: when the close or error event of a connection c is handled after its
\* user authenticated again on a newer connection n from the same address
\* (userToWebsocket maps the user to n, and n is open), the user stays
\* registered: userToWebsocket still maps the user to n.
C32_ReauthenticationSurvivesOldClose ==
    [][ \A c \in Conns :
            ( /\ handled' = NoTask
              /\ sockets'[c].readyState # sockets[c].readyState
              /\ sockets'[c].readyState \in {"CLOSING", "CLOSED"}
              /\ connUser[c] # Null )
                => LET u == connUser[c]
                       n == Get(userToWebsocket, u)
                   IN  ( /\ n # Null
                         /\ n # c
                         /\ sockets[n].readyState = "OPEN"
                         /\ connUser[n] = u
                         /\ getClientAddress(sockets[n].request)
                                = getClientAddress(sockets[c].request) )
                            => Get(userToWebsocket', u) = n
      ]_vars

\* C33: cleaning up the connection of one user (the close or error event of
\* the connection the user authenticated on, or the branch of send for a
\* handle that is not open) neither removes nor changes the registry entries
\* of a different user who is registered on another connection: that user's
\* userToWebsocket and userToIp entries and the ipToUser entries naming them.
C33_CleanupSparesOtherUsers ==
    [][ /\ \A c \in Conns :
            ( /\ handled' = NoTask
              /\ sockets'[c].readyState # sockets[c].readyState
              /\ sockets'[c].readyState \in {"CLOSING", "CLOSED"}
              /\ connUser[c] # Null )
                => \A v \in DOMAIN userToWebsocket :
                        (v # connUser[c] /\ userToWebsocket[v] # c)
                            => /\ Get(userToWebsocket', v) = userToWebsocket[v]
                               /\ Get(userToIp', v) = Get(userToIp, v)
                               /\ \A a \in DOMAIN ipToUser :
                                    ipToUser[a] = v => Get(ipToUser', a) = v
        /\ \A i \in 1..Len(sends') :
            LET s == sends'[i]
            IN  (s.handle # Null /\ s.readyState # "OPEN")
                    => \A v \in DOMAIN s.before.userToWebsocket :
                            (v # s.userId /\ s.before.userToWebsocket[v] # s.handle)
                                => /\ Get(s.after.userToWebsocket, v)
                                        = s.before.userToWebsocket[v]
                                   /\ Get(s.after.userToIp, v)
                                        = Get(s.before.userToIp, v)
                                   /\ \A a \in DOMAIN s.before.ipToUser :
                                        s.before.ipToUser[a] = v
                                            => Get(s.after.ipToUser, a) = v
      ]_vars

\* C31: no step changes the userId of a Thread row that exists, and no step
\* removes a Thread row: not a rename-thread, mark-as-read or message frame,
\* and not a create or update event of the platform.
C31_ThreadOwnerNeverChanges ==
    [][ \A t \in DOMAIN threads :
            /\ t \in DOMAIN threads'
            /\ threads'[t].userId = threads[t].userId
      ]_vars

\* Ann renamed her thread, and Bob's thread was marked as read up to another
\* message or got a message of the staff.
C31_Witness ==
    /\ threads[10].title = "Mine"
    /\ threads[10].userId = "a1 ann@x.io"
    /\ \/ threads[30].lastMessageReadId # 31
       \/ threads[30].lastMessageSentId # 31

\* C34: every server-thread, server-message and server-edited-message frame
\* written for user U concerns a thread whose userId is U, whatever threadId
\* a client puts in a switch-thread frame.
C34_OnlyOwnConversation ==
    \A i \in 1..Len(written) :
        LET U == written[i].user
            frame == written[i].frame
        IN  /\ frame.type = "server-thread"
                => /\ frame.id \in DOMAIN threads
                   /\ threads[frame.id].userId = U
            /\ frame.type \in {"server-message", "server-edited-message"}
                => /\ frame.id \in DOMAIN messages
                   /\ messages[frame.id].discordThreadId \in DOMAIN threads
                   /\ threads[messages[frame.id].discordThreadId].userId = U

\* C35: a rename-thread, message or mark-as-read frame of user U changes the
\* row and the messages only of a thread whose userId is U: while such a
\* frame is handled, the row of every thread of another user stays as it was
\* and no Message row is created in or changed for such a thread.
C35_FramesChangeOnlyOwnThreads ==
    [][ handled'.message.type \in {"rename-thread", "message", "mark-as-read"}
            => LET U == handled'.userId
               IN  /\ \A t \in DOMAIN threads :
                        threads[t].userId # U => threads'[t] = threads[t]
                   /\ \A m \in DOMAIN messages' :
                        ( /\ messages'[m].discordThreadId \in DOMAIN threads
                          /\ threads[messages'[m].discordThreadId].userId # U )
                            => /\ m \in DOMAIN messages
                               /\ messages'[m] = messages[m]
      ]_vars

\* C36: whenever a step sets a User's currentThreadId, the new value is null
\* or the id of a Thread row of the Store in the state the step ends in: also
\* when the step is the part of new-thread that runs before the adapter has
\* posted the first message, and when it is a switch-thread frame.
C36_CurrentThreadIsStored ==
    [][ \A u \in DOMAIN users' :
            (\/ u \notin DOMAIN users
             \/ users'[u].currentThreadId # users[u].currentThreadId)
                => \/ users'[u].currentThreadId = NullId
                   \/ users'[u].currentThreadId \in DOMAIN threads'
      ]_vars

\* C37: in every reachable state the thread of every Message row is a Thread
\* row of the Store.
C37_MessagesOfTrackedThreads ==
    \A m \in DOMAIN messages : messages[m].discordThreadId \in DOMAIN threads

\* C38: every create event that a registered staff member causes in a thread
\* of the platform is persisted as a Message row by the step that handles
\* it, also when new-thread has created the thread and not yet its row.
C38_StaffMessagePersisted ==
    [][ ( /\ handled'.event.kind = "create"
          /\ ~handled'.event.dm
          /\ handled'.event.channelId \in channels
          /\ \E u \in DOMAIN users :
                users[u].discordId = handled'.event.author )
            => handled'.event.id \in DOMAIN messages'
      ]_vars

\* C39: a message or rename-thread frame that names a thread existing on the
\* platform and is handled to its end without an error has taken effect: the
\* message is posted and persisted, the title of the row is the new one,
\* whatever an earlier lookup of the id gave.
C39_EffectDependsOnPlatformOnly ==
    [][ ( /\ handled'.message.type \in {"message", "rename-thread"}
          /\ handled'.res = "handled"
          /\ handled'.message.threadId \in channels )
            => IF handled'.message.type = "message"
               THEN /\ handled'.posted # NullId
                    /\ handled'.posted \in DOMAIN messages'
               ELSE /\ handled'.message.threadId \in DOMAIN threads'
                    /\ threads'[handled'.message.threadId].title
                          = handled'.message.title
      ]_vars

\* C40: every page sent for authenticate or history-before is a server-thread
\* frame of the user's current thread that holds only messages below the
\* anchor (none received before), each once, leaves out no message of the
\* thread between the anchor and its oldest entry, and has isAtBeginning true
\* exactly when no message of the thread is older than its entries; and a
\* client that got the first page and keeps asking with the oldest id of the
\* last page gets a page with isAtBeginning = true.
C40_ScrollbackCompleteAndFinite ==
    /\ [][ ( /\ handled'.message.type \in {"authenticate", "history-before"}
             /\ written' # << >>
             /\ written'[1].frame.type = "server-thread" )
            => LET frame == written'[1].frame
                   thread == {m \in DOMAIN messages :
                                messages[m].discordThreadId = frame.id}
                   got == {frame.messages[i].id : i \in 1..Len(frame.messages)}
                   above == IF handled'.message.type = "authenticate" THEN {}
                            ELSE {m \in thread :
                                    ~IdLess(m, handled'.message.messageId)}
               IN  /\ Len(written') = 1
                   /\ frame.id = users[handled'.userId].currentThreadId
                   /\ got \subseteq thread \ above
                   /\ Cardinality(got) = Len(frame.messages)
                   /\ \A m \in thread \ (above \cup got) :
                        \A g \in got : IdLess(m, g)
                   /\ frame.isAtBeginning <=> thread = above \cup got
                   /\ ~frame.isAtBeginning => got # {}
         ]_vars
    /\ ( /\ handled.message.type = "authenticate"
         /\ Len(written) = 1
         /\ written[1].frame.type = "server-thread" )
       ~> ( /\ Len(written) = 1
            /\ written[1].frame.type = "server-thread"
            /\ written[1].frame.isAtBeginning )

\* The third page Ann's client was sent, after two history-before frames, is
\* the beginning of her thread.
C40_Witness ==
    /\ handled.message.type = "history-before"
    /\ handled.seq >= 3
    /\ Len(written) = 1
    /\ written[1].frame.type = "server-thread"
    /\ written[1].frame.isAtBeginning
    /\ written[1].frame.messages # << >>

=============================================================================
